---- MODULE Spec2Model ----
(***************************************************************************)
(* Order execution engine of the Solana market maker.                      *)
(*                                                                         *)
(* OrderRouter.executeOrder (src/src/config/ConfigManager.ts, second half  *)
(* of the file) is modelled as one process per concurrent caller.  A step  *)
(* of a caller is the code that runs between two `await`s: JavaScript runs *)
(* it atomically.  Every awaited collaborator may resolve or reject.       *)
(*                                                                         *)
(* All Redis commands of the router, of its MarketStateManager and of the  *)
(* Orchestrator go through one ioredis connection, which answers commands  *)
(* in the order they were issued: redisQueue holds the callers whose       *)
(* command is in flight, and a command takes effect and resumes its caller *)
(* only at the head of that queue.                                         *)
(*                                                                         *)
(* Amounts: positions are kept in SOL, requests carry lamports; the code   *)
(* divides by 1_000_000_000, and the requests of the model are whole SOL.  *)
(* Time: `now` is Date.now() in abstract ticks.                            *)
(***************************************************************************)
EXTENDS Integers, Sequences, FiniteSets, TLC

(* ------------------------------ bounds --------------------------------- *)

\* executeOrder calls started in one behaviour
MaxOrders == 3

\* clock ticks after the initial instant
MaxTicks == 2

\* rejections of awaited collaborators in one behaviour
MaxFaults == 2

\* botConfig.solana.maxRetries (BotConfig.ts:17 default 5; the test uses 2)
maxRetries == 1

\* config.circuitBreakerThreshold (Orchestrator passes 5, the test 3)
circuitBreakerThreshold == 2

\* config.circuitBreakerTimeout in ticks (Orchestrator passes 30000 ms)
circuitBreakerTimeout == 1

\* botConfig.jito.tipLamports (BotConfig.ts:23: a positive integer, default
\* 100000)
tipLamports == 100

\* Date.now() when the router is constructed, in units of 200 ms
ConstructedAt == 100000

\* bundles built by one router in one behaviour
MaxBuilds == 3

\* recentTips keeps this many tips (100 in calculateDynamicTip)
HistoryCap == 3

\* MarketStateManager calls made in one behaviour
MaxCalls == 3

\* the capacity the Bloom filter is reserved with (1000000 in init)
bloomCapacity == 2

\* the capacity of a filter that BF.ADD creates when the key is missing
\* (100 in RedisBloom, below the reserved capacity)
defaultBloomCapacity == 1

\* the time-to-live of the Bloom filter's key in ticks (86400 s)
bloomTtl == 2

\* OrderDeduplicator calls made in one behaviour
MaxDedupCalls == 5

\* clock ticks of the deduplicator's store in one behaviour
MaxDedupTicks == 3

(* ----------------------------- constants ------------------------------- *)

LAMPORTS_PER_SOL == 1000000000

\* monitorBundle resolves after this many ms
MonitorDelay == 100

\* config.trading.baseAmountSol
baseAmountSol == 1

\* the idle-time divisor of calculateDynamicTip, 10000 ms, in units of 200 ms
IdleScale == 50

\* the tip multiplier stops growing here: Math.min(attempt * 0.5, 3)
maxTipMultiplier == 3

\* validateConfig warns above baseAmountSol * this many lamports
\* (1000000 * 0.1)
TipWarningPerSol == 100000

\* tipLamports: z.number().int().positive()
minTipLamports == 1

\* bloom.reserve(..., { expansionRate: 2 })
expansionRate == 2

Callers == {"c1", "c2"}

\* the Orchestrator is one object: its cycles run as this caller
OrchestratorCallers == {"c1"}

\* correlation ids that callers reuse; NoId stands for an id used only once
CorrelationIds == {"k1"}

\* config.bundleTimeout values the router may be constructed with (ms)
BundleTimeouts == {50, 5000}

\* a Redis key that was never written; a written key holds <<value>>
NULL == <<>>
NoError == "none"
NoCaller == "nobody"
NoId == "noid"

TargetToken == "TARGET_TOKEN"

\* one SOL bought or sold, and a buy of nothing, which the adapter refuses
OrderRequests ==
  [type : {"buy", "sell"}, tokenAddress : {TargetToken},
   amountLamports : {LAMPORTS_PER_SOL}]
  \cup [type : {"buy"}, tokenAddress : {TargetToken}, amountLamports : {0}]

\* createBuyTransaction / createSellTransaction accept the amount
ValidIntent(r) == r.amountLamports > 0

NoRequest == [type |-> "none", tokenAddress |-> TargetToken, amountLamports |-> 0]

NoResult == [kind |-> "pending", success |-> FALSE, error |-> NoError]
Threw(e) == [kind |-> "threw", success |-> FALSE, error |-> e]
Returned(s, e) == [kind |-> "returned", success |-> s, error |-> e]

VARIABLES
  pc,                   \* position of each caller inside executeOrder
  req,                  \* the OrderRequest of the call
  origin,               \* "direct" or "orchestrator"
  attempt,              \* local `attempt`
  err,                  \* the error being handled
  triggeredAt,          \* Date.now() captured for the pending redis.set
  result,               \* what the call gave back to its caller
  circuitBreakerActive, \* OrderRouter.circuitBreakerActive
  store,                \* the Redis keys
  redisQueue,           \* callers with a Redis command in flight, oldest first
  now,                  \* Date.now()
  bundleTimeout,        \* config.bundleTimeout
  faults,               \* collaborator calls that have rejected so far
  parallelism,          \* how many executeOrder calls may be in flight at once
  orderLimit,           \* how many executeOrder calls a behaviour starts
  obs,                  \* per call: what an observer of the call has seen
  hist,                 \* what an observer of the router has seen
  recentTips,           \* OrderRouter.recentTips
  lastBundleSentAt,     \* OrderRouter.lastBundleSentAt
  wallClock,            \* Date.now() in units of 200 ms
  tipOrder,             \* the order whose bundles are being priced
  jitoTipLamports,      \* botConfig.jito.tipLamports of this router
  marketHash,           \* the Redis hash market:<tokenAddress>, field by field
  managers,             \* per caller of a MarketStateManager: its call
  ledger,               \* what the callers of the managers have asked for
  dedup,                \* the OrderDeduplicator, its Redis key and its caller
  configManager,        \* BotConfigManager.instance, process.env, the last call
  orchestrator,         \* the Orchestrator, its timers and its trade cycles
  slotRange,            \* buildJitoBundle's two getSlot calls and the network slot
  positions,            \* TradingEngine: the hash "positions" and the calls on it
  tradeLists,           \* TradingEngine: the list trades:<token>
  tradeQueue            \* TradingEngine: config.maxTPS and the queue's intervalCap

\* what is fixed when the router is constructed
config == <<bundleTimeout, parallelism, orderLimit>>

\* the fee estimator's state
fees == <<recentTips, lastBundleSentAt, wallClock, tipOrder, jitoTipLamports>>

\* the state of executeOrder's control flow
flow == <<pc, req, origin, attempt, err, triggeredAt, result,
          circuitBreakerActive, store, redisQueue, now, bundleTimeout,
          faults, parallelism, orderLimit, obs, hist>>

vars == <<pc, req, origin, attempt, err, triggeredAt, result,
          circuitBreakerActive, store, redisQueue, now, bundleTimeout,
          faults, parallelism, orderLimit, obs, hist,
          recentTips, lastBundleSentAt, wallClock, tipOrder, jitoTipLamports,
          marketHash, managers, ledger, dedup, configManager, orchestrator,
          slotRange, positions, tradeLists, tradeQueue>>

\* the market state record and the calls on it
market == <<marketHash, managers, ledger>>

\* the components beside the router and the market state managers
others == <<dedup, configManager, orchestrator, slotRange, positions,
            tradeLists, tradeQueue>>

\* the deduplicator, the configuration manager and the orchestrator
components == <<dedup, configManager, orchestrator>>

\* the slot range of a bundle and the TradingEngine
engine == <<slotRange, positions, tradeLists, tradeQueue>>

\* a loop that allows one attempt more than configured
maxAttempts_oneMore == maxRetries + 2

\* const maxAttempts = this.botConfig.solana.maxRetries + 1
maxAttempts == maxRetries + 1

StartTime == circuitBreakerTimeout + 1
Horizon == StartTime + MaxTicks

\* parseInt(value || '0') of a key holding a non-negative integer or nothing
ParseIntOrZero(v) == IF v = NULL THEN 0 ELSE v[1]

RedisPcs == {"cbGet", "posIncr", "posHset", "liqIncr", "liqHset",
             "hbeIncr", "hbeGet", "hbeSet", "orchPosIncr", "orchPosHset"}

\* the awaited command of c has been answered
Ready(c) == pc[c] \in RedisPcs => (redisQueue # <<>> /\ Head(redisQueue) = c)

\* no outcome is waiting to be taken by a caller
Quiet == \A c \in Callers : pc[c] # "done"

\* c resumes at p: what it awaited has settled, and an outcome that is
\* there is taken first
At(c, p) == pc[c] = p /\ Ready(c) /\ Quiet

QueueAfter(c, p) ==
  LET q == IF pc[c] \in RedisPcs THEN Tail(redisQueue) ELSE redisQueue
  IN  IF p \in RedisPcs THEN Append(q, c) ELSE q

(* --------------------------- initial state ----------------------------- *)

\* (transaction, bundle: the attempt in which the objects the call holds
\* were made, and for the bundle the attempt whose transaction is in it)
NoBundle == [transaction |-> 0, slots |-> 0]

NoObs == [corr |-> NoId, submitted |-> {}, confirmed |-> {}, posDelta |-> 0,
          transaction |-> 0, bundle |-> NoBundle, timedOut |-> {},
          updatedIn |-> {}, failedAt |-> NULL, openAtStart |-> FALSE,
          passedOpen |-> FALSE, repeat |-> FALSE, besideProbe |-> FALSE,
          cancelled |-> FALSE, recorded |-> <<>>]

\* entries a trade list keeps (100 in the source, scaled)
TradeCap == 2

\* trades stored in one behaviour
MaxTrades == 5

\* calls of cleanupOldData, expiries of a key and failed Redis commands
MaxCleanups == 2
MaxExpiries == 1
MaxTradeFaults == 1

\* the floor Math.max(recentTPS, 10) puts under the intervalCap
minIntervalCap == 10

\* the largest MAX_TPS drawn, and the calls of start() in one behaviour
MaxMaxTPS == 12
MaxStarts == 3

\* calls of updatePosition and updatePositions in one behaviour
MaxPositionCalls == 3

\* reads and writes of the hash "positions" that may reject
MaxPositionFaults == 1

\* calls of buildJitoBundle in one behaviour
MaxSlotBuilds == 2

\* slots the network produces in one behaviour
MaxSlot == 6

\* maxSlot: (await getSlot()) + 10
SlotWindow == 10

\* restarts of the process in one behaviour
MaxRestarts == 1

\* start() and stop() calls in one behaviour
MaxOrchestratorCalls == 4

\* trade cycles begun in one behaviour
MaxCycles == 4

\* config.trading.maxPositionSize, which handleError compares with
\* failureCount (100 by default)
maxPositionSize == 1

\* getInstance and reloadConfig calls in one behaviour
MaxConfigCalls == 3

\* process.env.MAX_SLIPPAGE || '0.005', in thousandths
defaultMaxSlippage == 5

\* process.env.SPREAD_PERCENTAGE || '0.01', in thousandths
defaultSpreadPercentage == 10

\* process.env.REBALANCE_THRESHOLD || '0.1', in tenths
defaultRebalanceThreshold == 1

\* process.env.MAX_POSITION_SIZE || '100', in tenths
defaultMaxPositionSize == 1000

\* z.number().min(0).max(0.1), in thousandths
maxRatio == 100

\* the smallest volatilityFactor an order carries is 1 / TinyDen
TinyDen == 4000

\* request.volatilityFactor as a fraction
VolatilityFactors ==
  {[num |-> 1, den |-> TinyDen], [num |-> 1, den |-> 1], [num |-> 2, den |-> 1]}

\* (phase: "none" between orders, "build" before buildJitoBundle of the next
\* attempt, "sent" after it; bids: the tipAmount of each attempt; estimate:
\* what calculateDynamicTip last returned; builds: bundles built so far)
NoTipOrder == [phase |-> "none", volatilityFactor |-> [num |-> 1, den |-> 1],
               attempt |-> 0, bids |-> <<>>, estimate |-> 0, builds |-> 0]

\* callers of updatePosition, updateLiquidity, refreshVolatility and
\* getMarketState, through one manager or several
ManagerCallers == {"m1", "m2"}

HashFields == {"positionSize", "liquidity", "volatility", "lastUpdated"}

\* a key that does not exist: hgetall gives {}
NoRecord == [f \in HashFields |-> NULL]

\* a record written before the managers were constructed
PriorRecord == [positionSize |-> <<1>>, liquidity |-> <<2>>,
                volatility |-> NULL, lastUpdated |-> <<0>>]

\* the `amount` of updatePosition and updateLiquidity
Deltas == {-1, 1, 2}

\* what calculateVolatility returns: parseFloat of two hex digits is NaN
\* when the first is a letter
Volatilities == {"NaN", "0.1"}

\* (position, liquidity: the sums of the amounts of the update calls made;
\* written: a write has taken effect; calls: calls made)
NoLedger == [position |-> 0, liquidity |-> 0, written |-> FALSE,
             initial |-> NoRecord, calls |-> 0]

\* what a call gave back: nothing yet ("none"), undefined ("void"), an
\* exception ("threw"), null, or a MarketState (kind "state" with its fields)
Gave(kind) == [kind |-> kind, positionSize |-> 0, liquidity |-> 0,
               volatility |-> "0", lastUpdated |-> 0]

\* (pc: the await the call is at; result: what getMarketState returned;
\* seen: the ledger when hgetall was answered; alone: no other call was in
\* progress then)
NoCall == [pc |-> "idle", op |-> "none", amount |-> 0, volatility |-> "none",
           result |-> Gave("none"), seen |-> NoLedger, alone |-> FALSE]

\* order ids given to the deduplicator
OrderIds == {"a", "b", "c", "d"}

\* the bits of a filter layer that an id hashes to; "c" is covered by "a"
\* and "b" together
BloomBits(id) ==
  CASE id = "a" -> {0, 1}
    [] id = "b" -> {1, 2}
    [] id = "c" -> {0, 2}
    [] OTHER    -> {3, 4}

\* the key order_dedup_bloom does not exist
NoBloom == [layers |-> <<>>, ttl |-> -1, exists |-> FALSE]

\* (key: the Bloom filter under order_dedup_bloom, its layers oldest first
\* and its remaining time-to-live, -1 for none; pc, op, id, result: the call
\* in progress or last finished; now: the clock of the store; calls: calls
\* made; held: the ids whose add took effect on the filter that exists;
\* markedAt: when markProcessed last completed for an id; heldAtCheck: held
\* when the last exists was answered)
NoDedup == [key |-> NoBloom, pc |-> "idle", op |-> "none", id |-> "a",
            result |-> "none", now |-> 0, calls |-> 0, held |-> {},
            markedAt |-> [i \in OrderIds |-> -1], heldAtCheck |-> {},
            emptyAtCheck |-> FALSE]

\* the variables of process.env that the business rules read
ConfigEnvNames == {"MAX_SLIPPAGE", "SPREAD_PERCENTAGE", "REBALANCE_THRESHOLD",
                   "MAX_POSITION_SIZE"}

\* (env: NULL for a variable that is not set, <<n>> for one that parses to
\* n; instance: NULL or <<config>>; op, loaded, outcome: the last call, whether
\* it ran loadAndValidateConfig, and "ok" or the error it threw)
NoConfigManager == [env |-> [n \in ConfigEnvNames |-> NULL], instance |-> NULL,
                    op |-> "none", loaded |-> FALSE, outcome |-> "ok",
                    calls |-> 0]

\* (slot: the slot of the network; pc: "idle", "minSlot" while the first
\* getSlot is awaited, "maxSlot" while the second is, "built" when the bundle
\* has been returned; builds: calls of buildJitoBundle so far)
NoSlotRange == [slot |-> 0, pc |-> "idle", minSlot |-> 0, maxSlot |-> 0,
                builds |-> 0]

\* tokens whose trades are stored, one list `trades:<token>` each
TradeTokens == {"tokenA", "tokenB"}

\* (lists: the Redis lists, newest entry first, <<>> for a missing key;
\* history: every trade ever pushed to the list, newest first; stored: the
\* trades pushed so far; pc, keys: cleanupOldData's position and the keys it
\* still has to trim; cleanups: finished calls of cleanupOldData)
NoTradeLists == [lists |-> [k \in TradeTokens |-> <<>>],
                 history |-> [k \in TradeTokens |-> <<>>],
                 stored |-> 0, pc |-> "idle", keys |-> {}, cleanups |-> 0,
                 expiries |-> 0, faults |-> 0]

\* (maxTPS: config.maxTPS; intervalCap: the intervalCap of this.queue as
\* <<numerator, denominator>>; pc: "idle" or "samples" while
\* getRecentPerformanceSamples is awaited; starts: calls of start();
\* optimized: the queue was replaced by optimizeRateLimit)
NoTradeQueue == [maxTPS |-> 10, intervalCap |-> <<10, 1>>, pc |-> "idle",
                 starts |-> 0, optimized |-> FALSE, isActive |-> FALSE]

\* tasks that call updatePosition or updatePositions of a TradingEngine
PositionTasks == {"p1", "p2"}

\* (pc: "idle", "hget" while getPosition is awaited, "exec" while
\* multi.exec() is, "done"; updates: the signed amounts of the call, +amount
\* for a buy and -amount for a sell, all for one token; i: the update whose
\* getPosition is awaited; staged: the hset commands queued in the multi;
\* before, after: the stored position when the call began and when its exec
\* had been applied; misread: a getPosition of the call fell back to 0)
NoTask == [pc |-> "idle", op |-> "none", updates |-> <<>>, i |-> 0,
           staged |-> <<>>, outcome |-> "none", before |-> 0, after |-> 0,
           misread |-> FALSE]

\* (stored: the field of the token in the hash "positions", 0 when absent;
\* initial: its value at the start; applied: the sum of the updates of the
\* calls that have returned; repeated: some call held two updates;
\* misread: some getPosition fell back to 0)
NoPositions == [stored |-> 0, initial |-> 0, maxConcurrency |-> 1,
                tasks |-> [t \in PositionTasks |-> NoTask], calls |-> 0,
                applied |-> 0, repeated |-> FALSE, misread |-> FALSE,
                faults |-> 0]

\* (tradeInterval: 0 for undefined, else the id setInterval returned;
\* timers: the intervals that have not been cleared; resets: pending
\* setTimeout callbacks of updateMetrics; inFlight: trade cycles that have
\* begun and not ended; cycles: trade cycles begun; calls: start() and
\* stop() calls made from outside; op: the last of them)
NoOrchestrator == [isRunning |-> FALSE, tradeInterval |-> 0, timers |-> {},
                   circuitBreaker |-> FALSE, resets |-> 0, inFlight |-> 0,
                   successCount |-> 0, failureCount |-> 0, cycles |-> 0,
                   calls |-> 0, op |-> "none"]

InFlight == {c \in Callers : pc[c] # "idle"}

\* calls have no identity of their own: a call that starts while no other
\* is in flight is c1, one that starts beside it is c2
NextCaller == IF pc["c1"] = "idle" THEN "c1" ELSE "c2"

Fresh ==
  /\ pc = [c \in Callers |-> "idle"]
  /\ req = [c \in Callers |-> NoRequest]
  /\ origin = [c \in Callers |-> "direct"]
  /\ attempt = [c \in Callers |-> 0]
  /\ err = [c \in Callers |-> NoError]
  /\ triggeredAt = [c \in Callers |-> NULL]
  /\ result = [c \in Callers |-> NoResult]
  /\ circuitBreakerActive = FALSE
  /\ store = [errorCount |-> NULL, lastTriggered |-> NULL,
              positionSize |-> 0, liquidity |-> 0]
  /\ redisQueue = <<>>
  /\ now = StartTime
  /\ bundleTimeout \in BundleTimeouts
  /\ obs = [c \in Callers |-> NoObs]
  /\ hist = [orders |-> 0, consecutiveFailed |-> 0, lastFailTime |-> NULL,
             processed |-> {}, probe |-> NoCaller, restarts |-> 0]
  /\ recentTips = <<jitoTipLamports>>
  /\ lastBundleSentAt = 0
  /\ wallClock = ConstructedAt
  /\ tipOrder = NoTipOrder
  /\ managers = [m \in ManagerCallers |-> NoCall]
  /\ dedup = NoDedup
  /\ configManager = NoConfigManager
  /\ orchestrator = NoOrchestrator
  /\ slotRange = NoSlotRange
  /\ tradeLists = NoTradeLists

\* one order at a time (the Orchestrator's cycle, a test), any collaborator
\* may reject
Init ==
  /\ jitoTipLamports = tipLamports
  /\ Fresh
  /\ positions = NoPositions
  /\ tradeQueue = NoTradeQueue
  /\ marketHash = NoRecord
  /\ ledger = NoLedger
  /\ parallelism = 1
  /\ orderLimit = MaxOrders
  /\ faults = 0

\* overlapping calls, collaborators that do not reject; one more call, so
\* that two calls can overlap after the breaker has tripped
InitConcurrent ==
  /\ jitoTipLamports = tipLamports
  /\ Fresh
  /\ positions = NoPositions
  /\ tradeQueue = NoTradeQueue
  /\ marketHash = NoRecord
  /\ ledger = NoLedger
  /\ parallelism = Cardinality(Callers)
  /\ orderLimit = MaxOrders + 1
  /\ faults = MaxFaults

(* ------------------------- control-flow helpers ------------------------ *)

\* an awaited collaborator resolves (TRUE) or rejects (FALSE)
Outcomes == IF faults < MaxFaults THEN BOOLEAN ELSE {TRUE}

\* the outcomes of a collaborator that can fail in the ways `kinds`
MayFail(kinds) == IF faults < MaxFaults THEN {"ok"} \cup kinds ELSE {"ok"}

Charge(ok) == faults' = IF ok THEN faults ELSE faults + 1

\* caller c moves to p with local attempt a and error e
Step(c, p, a, e) ==
  /\ pc' = [pc EXCEPT ![c] = p]
  /\ attempt' = [attempt EXCEPT ![c] = a]
  /\ err' = [err EXCEPT ![c] = e]
  /\ redisQueue' = QueueAfter(c, p)

\* the inner catch: handleBundleError(error, attempt, maxAttempts) starts;
\* on the last attempt its first await is redis.incr, otherwise the sleep
InnerCatch(c, e) ==
  Step(c, IF attempt[c] >= maxAttempts THEN "hbeIncr" ELSE "sleep", attempt[c], e)

\* the outer catch: builds the failure result and awaits recordTrade
OuterCatch(c, e) == Step(c, "recordFail", attempt[c], e)

\* a retry that sends the bundle of the attempt before once more
EnterAttempt_reusingBundle(c) ==
  Step(c, IF attempt[c] = 0 THEN "prepare" ELSE "send", attempt[c] + 1, NoError)

\* while (attempt < maxAttempts) { attempt++; prepareTransaction(...) }
EnterAttempt(c) == Step(c, "prepare", attempt[c] + 1, NoError)

\* amount applied by updateMarketState: +SOL for a buy, -SOL for a sell
SignedAmount(r) ==
  IF r.type = "buy" THEN r.amountLamports \div LAMPORTS_PER_SOL
                    ELSE 0 - (r.amountLamports \div LAMPORTS_PER_SOL)

\* the resolve timer of monitorBundle fires before its timeout timer
monitorResolves(timeout) == timeout > MonitorDelay

\* the call hands res to its caller
ReturnFrom(c, res) ==
  /\ result' = [result EXCEPT ![c] = res]
  /\ pc' = [pc EXCEPT ![c] =
              IF origin[c] = "orchestrator" /\ res.success
                THEN "orchPosIncr" ELSE "done"]
  /\ redisQueue' = QueueAfter(c, pc'[c])
  /\ hist' = [hist EXCEPT
                !.consecutiveFailed = IF res.success THEN 0 ELSE @ + 1,
                !.lastFailTime = IF obs[c].failedAt = NULL THEN @
                                 ELSE obs[c].failedAt,
                !.processed = IF obs[c].corr = NoId THEN @
                              ELSE @ \cup {obs[c].corr},
                !.probe = IF @ = c THEN NoCaller ELSE @]
  /\ UNCHANGED <<attempt, err>>

\* the claim's view of an open breaker: `threshold` orders in a row have
\* failed and the cooldown since the last of those failures has not elapsed
OpenByFailures ==
  /\ hist.consecutiveFailed >= circuitBreakerThreshold
  /\ hist.lastFailTime # NULL
  /\ now - hist.lastFailTime[1] <= circuitBreakerTimeout

(* ------------------------------ actions -------------------------------- *)

\* (a request the builder refuses is taken only while the rejections it
\* will cause, one per attempt, fit in MaxFaults)
\* executeOrder up to the first await: the locals, then checkCircuitBreaker
\* reads the flag and, when it is set, issues redis.get
Begin(c, r, o, id) ==
  /\ At(c, "idle")
  /\ c = NextCaller
  /\ ValidIntent(r) \/ faults + maxAttempts <= MaxFaults
  /\ Cardinality(InFlight) < parallelism
  /\ hist.orders < orderLimit
  /\ req' = [req EXCEPT ![c] = r]
  /\ origin' = [origin EXCEPT ![c] = o]
  /\ result' = [result EXCEPT ![c] = NoResult]
  /\ obs' = [obs EXCEPT ![c] =
               [NoObs EXCEPT !.corr = id,
                             !.openAtStart = OpenByFailures,
                             !.passedOpen = /\ ~circuitBreakerActive
                                            /\ OpenByFailures,
                             !.repeat = id \in hist.processed,
                             !.besideProbe = /\ ~circuitBreakerActive
                                             /\ hist.probe # NoCaller]]
  /\ hist' = [hist EXCEPT !.orders = @ + 1]
  /\ IF circuitBreakerActive
       THEN Step(c, "cbGet", 0, NoError)
       ELSE Step(c, "prepare", 1, NoError)
  /\ UNCHANGED <<faults, triggeredAt, circuitBreakerActive, store, now, config, fees, market, others>>

ExecuteOrder(c) ==
  \E r \in OrderRequests, id \in CorrelationIds \cup {NoId} : Begin(c, r, "direct", id)

\* OrderRouter.executeBuyOrder(token, amountSol), called by the Orchestrator
ExecuteBuyOrder(c, amountSol) ==
  Begin(c, [type |-> "buy", tokenAddress |-> TargetToken,
            amountLamports |-> amountSol * LAMPORTS_PER_SOL],
        "orchestrator", NoId)

\* Orchestrator.executeMarketOrder up to its await of executeBuyOrder
ExecuteMarketOrder(c) ==
  /\ c \in OrchestratorCallers
  /\ ExecuteBuyOrder(c, baseAmountSol)

\* checkCircuitBreaker after redis.get('circuit_breaker_last_triggered')
CheckCircuitBreaker(c) ==
  /\ At(c, "cbGet")
  /\ \E ok \in Outcomes :
       /\ Charge(ok)
       /\ IF ~ok
         THEN /\ OuterCatch(c, "StoreError")
              /\ UNCHANGED <<circuitBreakerActive, obs, hist>>
         ELSE IF now - ParseIntOrZero(store.lastTriggered) > circuitBreakerTimeout
           THEN /\ circuitBreakerActive' = FALSE
                /\ EnterAttempt(c)
                /\ obs' = [obs EXCEPT ![c].besideProbe = hist.probe # NoCaller,
                                      ![c].passedOpen = OpenByFailures]
                /\ hist' = [hist EXCEPT !.probe = IF @ = NoCaller THEN c ELSE @]
           ELSE /\ OuterCatch(c, "CircuitOpen")
                /\ UNCHANGED <<circuitBreakerActive, obs, hist>>
  /\ UNCHANGED <<req, origin, triggeredAt, result, store, now, config, fees, market, others>>

\* prepareTransaction: adapter.createBuy/SellTransaction, getLatestBlockhash,
\* hsm.connect, hsm.signTransaction
PrepareTransaction(c) ==
  /\ At(c, "prepare")
  /\ IF ~ValidIntent(req[c])
       THEN /\ InnerCatch(c, "InvalidIntent")
            /\ Charge(FALSE)
            /\ hist' = hist
       ELSE \E out \in MayFail({"TransientLookupFailure", "SigningFailed"}) :
              /\ Charge(out = "ok")
              /\ IF out = "ok"
                   THEN Step(c, "bundle", attempt[c], NoError) /\ hist' = hist
                   ELSE InnerCatch(c, out) /\ hist' = hist
  /\ obs' = IF pc'[c] = "bundle"
              THEN [obs EXCEPT ![c].transaction = attempt[c]]
              ELSE obs
  /\ UNCHANGED <<req, origin, triggeredAt, result, circuitBreakerActive, store,
                 now, config, fees, market, others>>

\* buildJitoBundle: the tip, then connection.getSlot twice
BuildJitoBundle(c) ==
  /\ At(c, "bundle")
  /\ \E out \in MayFail({"TransientLookupFailure"}) :
       /\ Charge(out = "ok")
       /\ IF out = "ok"
         THEN Step(c, "send", attempt[c], NoError) /\ hist' = hist
         ELSE InnerCatch(c, out) /\ hist' = hist
  /\ obs' = IF pc'[c] = "send"
              THEN [obs EXCEPT ![c].bundle =
                      [transaction |-> obs[c].transaction,
                       slots |-> attempt[c]]]
              ELSE obs
  /\ UNCHANGED <<req, origin, triggeredAt, result, circuitBreakerActive, store,
                 now, config, fees, market, others>>

\* sendAndConfirmJitoBundle: the relay takes the bundle, or rejects it, or
\* cannot be reached
SendAndConfirmJitoBundle(c) ==
  /\ At(c, "send")
  /\ \E out \in MayFail({"BundleRejected", "RelayUnavailable"}) :
       /\ Charge(out = "ok")
       /\ obs' = [obs EXCEPT ![c].submitted =
                    IF out = "RelayUnavailable" THEN @ ELSE @ \cup {attempt[c]}]
       /\ IF out = "ok"
            THEN Step(c, "monitor", attempt[c], NoError) /\ hist' = hist
            ELSE InnerCatch(c, out) /\ hist' = hist
  /\ UNCHANGED <<req, origin, triggeredAt, result, circuitBreakerActive, store,
                 now, config, fees, market, others>>

\* a variant of the step below in which executeOrder does not wait for the
\* verdict of monitorBundle: a bundle that times out is followed by
\* updateMarketState all the same
MonitorBundle_unawaited(c) ==
  /\ At(c, "monitor")
  /\ obs' = [obs EXCEPT ![c].confirmed =
                IF monitorResolves(bundleTimeout) THEN @ \cup {attempt[c]}
                                                  ELSE @]
  /\ Step(c, "posIncr", attempt[c], NoError)
  /\ UNCHANGED <<faults, req, origin, triggeredAt, result,
                 circuitBreakerActive, store, now, config, fees, market, others, hist>>

\* monitorBundle settles; when it resolves, executeOrder goes on into
\* updateMarketState -> updatePosition, which issues redis.hincrbyfloat
MonitorBundle(c) ==
  /\ At(c, "monitor")
  /\ IF monitorResolves(bundleTimeout)
       THEN /\ obs' = [obs EXCEPT ![c].confirmed = @ \cup {attempt[c]}]
            /\ Step(c, "posIncr", attempt[c], NoError)
            /\ hist' = hist
       ELSE /\ InnerCatch(c, "TimedOut")
            /\ hist' = hist
            /\ obs' = [obs EXCEPT ![c].timedOut = @ \cup {attempt[c]}]
  /\ UNCHANGED <<faults, req, origin, triggeredAt, result,
                 circuitBreakerActive, store, now, config, fees, market, others>>

\* MarketStateManager.updatePosition: redis.hincrbyfloat(key, 'positionSize')
UpdatePosition_hincrbyfloat(c) ==
  /\ At(c, "posIncr")
  /\ \E ok \in Outcomes :
       /\ Charge(ok)
       /\ IF ok
         THEN /\ store' = [store EXCEPT !.positionSize = @ + SignedAmount(req[c])]
              /\ obs' = [obs EXCEPT ![c].posDelta = @ + SignedAmount(req[c]),
                                    ![c].updatedIn = @ \cup {attempt[c]}]
              /\ Step(c, "posHset", attempt[c], NoError)
              /\ hist' = hist
         ELSE /\ InnerCatch(c, "StoreError")
              /\ hist' = hist
              /\ UNCHANGED <<store, obs>>
  /\ UNCHANGED <<req, origin, triggeredAt, result, circuitBreakerActive, now,
                 config, fees, market, others>>

\* MarketStateManager.updatePosition: redis.hset(key, 'lastUpdated'); then
\* updateLiquidity issues its redis.hincrbyfloat
UpdatePosition_hset(c) ==
  /\ At(c, "posHset")
  /\ \E ok \in Outcomes :
       /\ Charge(ok)
       /\ IF ok
         THEN Step(c, "liqIncr", attempt[c], NoError) /\ hist' = hist
         ELSE InnerCatch(c, "StoreError") /\ hist' = hist
  /\ UNCHANGED <<req, origin, triggeredAt, result, circuitBreakerActive, store,
                 now, config, fees, market, others, obs>>

\* MarketStateManager.updateLiquidity: redis.hincrbyfloat(key, 'liquidity')
UpdateLiquidity_hincrbyfloat(c) ==
  /\ At(c, "liqIncr")
  /\ \E ok \in Outcomes :
       /\ Charge(ok)
       /\ IF ok
            THEN /\ store' = [store EXCEPT !.liquidity = @ + SignedAmount(req[c])]
                 /\ obs' = [obs EXCEPT ![c].updatedIn = @ \cup {attempt[c]}]
                 /\ Step(c, "liqHset", attempt[c], NoError)
            ELSE /\ InnerCatch(c, "StoreError")
                 /\ UNCHANGED <<store, obs>>
  /\ UNCHANGED <<req, origin, triggeredAt, result, circuitBreakerActive, now,
                 config, fees, market, others, hist>>

\* MarketStateManager.updateLiquidity: redis.hset(key, 'lastUpdated'); then
\* executeOrder awaits metricsCollector.recordTrade({success: true, ...})
UpdateLiquidity_hset(c) ==
  /\ At(c, "liqHset")
  /\ \E ok \in Outcomes :
       /\ Charge(ok)
       /\ IF ok
         THEN Step(c, "recordOk", attempt[c], NoError) /\ hist' = hist
         ELSE InnerCatch(c, "StoreError") /\ hist' = hist
  /\ UNCHANGED <<req, origin, triggeredAt, result, circuitBreakerActive, store,
                 now, config, fees, market, others, obs>>

\* recordTrade of the success path settles: executeOrder returns success, or
\* the rejection lands in the inner catch like any failure of the attempt
RecordTradeSuccess(c) ==
  /\ At(c, "recordOk")
  /\ \E ok \in Outcomes :
       /\ Charge(ok)
       /\ IF ok
         THEN /\ ReturnFrom(c, Returned(TRUE, NoError))
              /\ obs' = [obs EXCEPT ![c].recorded = Append(@, TRUE)]
         ELSE /\ InnerCatch(c, "MetricsError")
              /\ hist' = hist
              /\ result' = result
              /\ obs' = obs
  /\ UNCHANGED <<req, origin, triggeredAt, circuitBreakerActive, store, now,
                 config, fees, market, others>>

\* handleBundleError, last attempt: redis.incr('circuit_breaker_error_count')
HandleBundleError_incr(c) ==
  /\ At(c, "hbeIncr")
  /\ \E ok \in Outcomes :
       /\ Charge(ok)
       /\ IF ok
            THEN /\ store' = [store EXCEPT !.errorCount = <<ParseIntOrZero(@) + 1>>]
                 /\ Step(c, "hbeGet", attempt[c], err[c])
            ELSE /\ OuterCatch(c, "StoreError")
                 /\ store' = store
  /\ obs' = [obs EXCEPT ![c].failedAt = <<now>>]
  /\ UNCHANGED <<req, origin, triggeredAt, result, circuitBreakerActive, now,
                 config, fees, market, others, hist>>

\* handleBundleError: redis.get('circuit_breaker_error_count'), the threshold
\* test, the flag, and the redis.set of Date.now() being issued
HandleBundleError_get(c) ==
  /\ At(c, "hbeGet")
  /\ \E ok \in Outcomes :
       /\ Charge(ok)
       /\ IF ~ok
         THEN /\ OuterCatch(c, "StoreError")
              /\ UNCHANGED <<circuitBreakerActive, triggeredAt>>
         ELSE IF ParseIntOrZero(store.errorCount) >= circuitBreakerThreshold
           THEN /\ circuitBreakerActive' = TRUE
                /\ triggeredAt' = [triggeredAt EXCEPT ![c] = <<now>>]
                /\ Step(c, "hbeSet", attempt[c], err[c])
           ELSE /\ Step(c, "sleep", attempt[c], err[c])
                /\ UNCHANGED <<circuitBreakerActive, triggeredAt>>
  /\ UNCHANGED <<req, origin, result, store, now, config, fees, market, others, obs, hist>>

\* handleBundleError: redis.set('circuit_breaker_last_triggered', ...)
HandleBundleError_set(c) ==
  /\ At(c, "hbeSet")
  /\ \E ok \in Outcomes :
       /\ Charge(ok)
       /\ IF ok
         THEN /\ store' = [store EXCEPT !.lastTriggered = triggeredAt[c]]
              /\ Step(c, "sleep", attempt[c], err[c])
         ELSE /\ OuterCatch(c, "StoreError")
              /\ store' = store
  /\ triggeredAt' = [triggeredAt EXCEPT ![c] = NULL]
  /\ UNCHANGED <<req, origin, result, circuitBreakerActive, now, config, fees, market, others,
                 obs, hist>>

\* handleBundleError: the backoff sleep ends; `if (attempt === maxAttempts)
\* throw error`, otherwise the loop goes round
HandleBundleError_sleep(c) ==
  /\ At(c, "sleep")
  /\ IF attempt[c] = maxAttempts
       THEN OuterCatch(c, err[c])
       ELSE EnterAttempt(c)
  /\ UNCHANGED <<faults, req, origin, triggeredAt, result, circuitBreakerActive, store,
                 now, config, fees, market, others, obs, hist>>

\* the outer catch: recordTrade({success: false, ...}) settles; the failure
\* result is returned, or the rejection leaves executeOrder
RecordTradeFailure(c) ==
  /\ At(c, "recordFail")
  /\ \E ok \in Outcomes :
       /\ Charge(ok)
       /\ ReturnFrom(c, IF ok THEN Returned(FALSE, err[c]) ELSE Threw("MetricsError"))
       /\ obs' = IF ok THEN [obs EXCEPT ![c].recorded = Append(@, FALSE)]
                 ELSE obs
  /\ UNCHANGED <<req, origin, triggeredAt, circuitBreakerActive, store, now,
                 config, fees, market, others>>

\* Orchestrator.executeMarketOrder after a success result:
\* marketStateManager.updatePosition(tokenAddress, amountSol), hincrbyfloat
Orchestrator_updatePosition_hincrbyfloat(c) ==
  /\ At(c, "orchPosIncr")
  /\ \E ok \in Outcomes :
       /\ Charge(ok)
       /\ IF ok
         THEN /\ store' = [store EXCEPT !.positionSize = @ + baseAmountSol]
              /\ obs' = [obs EXCEPT ![c].posDelta = @ + baseAmountSol]
              /\ Step(c, "orchPosHset", attempt[c], err[c])
         ELSE /\ Step(c, "done", attempt[c], "StoreError")
              /\ UNCHANGED <<store, obs>>
  /\ UNCHANGED <<req, origin, triggeredAt, result, circuitBreakerActive, now,
                 config, fees, market, others, hist>>

\* ... and its redis.hset of lastUpdated
Orchestrator_updatePosition_hset(c) ==
  /\ At(c, "orchPosHset")
  /\ \E ok \in Outcomes :
       /\ Charge(ok)
       /\ Step(c, "done", attempt[c], IF ok THEN err[c] ELSE "StoreError")
  /\ UNCHANGED <<req, origin, triggeredAt, result, circuitBreakerActive, store,
                 now, config, fees, market, others, obs, hist>>

\* the caller of c's call takes the outcome; c is free for another call
Acknowledge(c) ==
  /\ pc[c] = "done"
  /\ pc' = [pc EXCEPT ![c] = "idle"]
  /\ req' = [req EXCEPT ![c] = NoRequest]
  /\ origin' = [origin EXCEPT ![c] = "direct"]
  /\ attempt' = [attempt EXCEPT ![c] = 0]
  /\ err' = [err EXCEPT ![c] = NoError]
  /\ result' = [result EXCEPT ![c] = NoResult]
  /\ obs' = [obs EXCEPT ![c] = NoObs]
  /\ UNCHANGED <<faults, triggeredAt, circuitBreakerActive, store, redisQueue, now,
                 config, fees, market, others, hist>>

\* a timestamp has been taken: Date.now() is only ever compared with one
\* (checkCircuitBreaker), so time that passes before the first is not seen
Clocked ==
  \/ store.lastTriggered # NULL
  \/ hist.lastFailTime # NULL
  \/ \E c \in Callers : triggeredAt[c] # NULL \/ obs[c].failedAt # NULL

\* time passes
Tick ==
  /\ Quiet
  /\ Clocked
  /\ now < Horizon
  /\ now' = now + 1
  /\ UNCHANGED <<faults, pc, req, origin, attempt, err, triggeredAt, result,
                 circuitBreakerActive, store, redisQueue, config, fees, market, others, obs, hist>>

Next ==
  \/ \E c \in Callers : Acknowledge(c)
  \/ \E c \in Callers : ExecuteOrder(c)
  \/ \E c \in Callers : ExecuteMarketOrder(c)
  \/ \E c \in Callers : CheckCircuitBreaker(c)
  \/ \E c \in Callers : PrepareTransaction(c)
  \/ \E c \in Callers : BuildJitoBundle(c)
  \/ \E c \in Callers : SendAndConfirmJitoBundle(c)
  \/ \E c \in Callers : MonitorBundle(c)
  \/ \E c \in Callers : UpdatePosition_hincrbyfloat(c)
  \/ \E c \in Callers : UpdatePosition_hset(c)
  \/ \E c \in Callers : UpdateLiquidity_hincrbyfloat(c)
  \/ \E c \in Callers : UpdateLiquidity_hset(c)
  \/ \E c \in Callers : RecordTradeSuccess(c)
  \/ \E c \in Callers : HandleBundleError_incr(c)
  \/ \E c \in Callers : HandleBundleError_get(c)
  \/ \E c \in Callers : HandleBundleError_set(c)
  \/ \E c \in Callers : HandleBundleError_sleep(c)
  \/ \E c \in Callers : RecordTradeFailure(c)
  \/ \E c \in Callers : Orchestrator_updatePosition_hincrbyfloat(c)
  \/ \E c \in Callers : Orchestrator_updatePosition_hset(c)
  \/ Tick

Spec == Init /\ [][Next]_vars

SpecConcurrent == InitConcurrent /\ [][Next]_vars

(* ------------------------- the router's lifetime ----------------------- *)

\* the caller of c gives up on the call while executeOrder is suspended in
\* the transaction build, the bundle build, the submission, the confirmation
\* wait or the backoff sleep.  executeOrder(request) takes no signal and no
\* deadline, so nothing in the router changes
Cancel(c) ==
  /\ pc[c] \in {"prepare", "bundle", "send", "monitor", "sleep"}
  /\ ~obs[c].cancelled
  /\ obs' = [obs EXCEPT ![c].cancelled = TRUE]
  /\ UNCHANGED <<faults, pc, req, origin, attempt, err, triggeredAt, result,
                 circuitBreakerActive, store, redisQueue, now, config, fees,
                 market, others, hist>>

\* the process restarts between two calls: a new OrderRouter is constructed
\* over the same Redis, with the field initialisers of the class
Restart ==
  /\ \A c \in Callers : pc[c] = "idle"
  /\ hist.restarts < MaxRestarts
  /\ circuitBreakerActive' = FALSE
  /\ recentTips' = <<jitoTipLamports>>
  /\ lastBundleSentAt' = 0
  /\ hist' = [hist EXCEPT !.restarts = @ + 1]
  /\ UNCHANGED <<faults, pc, req, origin, attempt, err, triggeredAt, result,
                 store, redisQueue, now, config, wallClock, tipOrder,
                 jitoTipLamports, market, others, obs>>

NextLifetime ==
  \/ Next
  \/ \E c \in Callers : Cancel(c)
  \/ Restart

SpecLifetime == Init /\ [][NextLifetime]_vars

(* ---------------------------- fee estimator ---------------------------- *)

(***************************************************************************)
(* buildJitoBundle prices each bundle with calculateDynamicTip.  The tip   *)
(* does not steer executeOrder's control flow, so the fee state is a       *)
(* machine of its own: SpecFees walks one router through orders, their     *)
(* attempts and the time between them, and keeps the control-flow state    *)
(* of Spec as it is after construction.  The arithmetic is exact: the      *)
(* moving average is kept as a fraction over a power of 5.                 *)
(***************************************************************************)

RECURSIVE Pow(_, _)
Pow(b, n) == IF n = 0 THEN 1 ELSE b * Pow(b, n - 1)

\* Math.floor(a * b / c) for a, b >= 0 and c > 0
FloorMulDiv(a, b, c) == (a \div c) * b + ((a % c) * b) \div c

\* recentTips.reduce((a, b) => a * 0.8 + b * 0.2, baseTip) after the first k
\* tips, as the numerator of a fraction over 5^k
RECURSIVE EmaNumerator(_, _, _)
EmaNumerator(tips, baseTip, k) ==
  IF k = 0 THEN baseTip
  ELSE 4 * EmaNumerator(tips, baseTip, k - 1) + tips[k] * Pow(5, k - 1)

\* a volatilityFactor that divides where the code multiplies
calculateDynamicTip_dividing(tips, volatilityFactor, idle) ==
  FloorMulDiv(EmaNumerator(tips, jitoTipLamports, Len(tips)),
              volatilityFactor.den * (IdleScale + idle),
              Pow(5, Len(tips)) * IdleScale) \div volatilityFactor.num

\* calculateDynamicTip's adjustedTip: Math.floor(ema * volatilityFactor *
\* (1 + (Date.now() - this.lastBundleSentAt) / 10000))
\* (the quotient by 5^n * IdleScale * den is taken in two steps, which gives
\* the same floor)
calculateDynamicTip(tips, volatilityFactor, idle) ==
  FloorMulDiv(EmaNumerator(tips, jitoTipLamports, Len(tips)),
              volatilityFactor.num * (IdleScale + idle),
              Pow(5, Len(tips)) * IdleScale) \div volatilityFactor.den

\* a full history that gives up its newest entry for the new tip
PushTip_evictingNewest(tips, tip) ==
  IF Len(tips) + 1 > HistoryCap
    THEN Append(SubSeq(tips, 1, Len(tips) - 1), tip)
    ELSE Append(tips, tip)

\* this.recentTips.push(adjustedTip); if (length > 100) this.recentTips.shift()
PushTip(tips, tip) ==
  IF Len(tips) + 1 > HistoryCap THEN Tail(Append(tips, tip)) ELSE Append(tips, tip)

\* Math.floor(baseTip * Math.min(attempt * 0.5, 3))
optimizedTip(baseTip, a) ==
  IF a >= 2 * maxTipMultiplier THEN maxTipMultiplier * baseTip
  ELSE (baseTip * a) \div 2

\* the tip above which validateConfig warns that it is more than 10% of the
\* base trading amount
tipWarningLamports == baseAmountSol * TipWarningPerSol

\* v1 <= v2 for two volatility factors
NotAbove(v1, v2) == v1.num * v2.den <= v2.num * v1.den

\* setTimeout(resolve, 2 ** attempt * 100), in units of 200 ms
Backoff(a) == Pow(2, a - 1)

\* time that passes besides the backoff, in units of 200 ms
IdleTimes == {0, 10, 50}

\* executeOrder is called: the awaits before the first buildJitoBundle take
\* some time
TipBegin(v, d) ==
  /\ tipOrder.phase = "none"
  /\ tipOrder.builds < MaxBuilds
  /\ tipOrder' = [tipOrder EXCEPT !.phase = "build", !.volatilityFactor = v,
                                  !.attempt = 1, !.bids = <<>>]
  /\ wallClock' = wallClock + d
  /\ UNCHANGED <<recentTips, lastBundleSentAt, jitoTipLamports, flow, market,
                 others>>

\* buildJitoBundle of the current attempt
BuildTip ==
  /\ tipOrder.phase = "build"
  /\ LET baseTip == calculateDynamicTip(recentTips, tipOrder.volatilityFactor,
                                        wallClock - lastBundleSentAt)
     IN  /\ recentTips' = PushTip(recentTips, baseTip)
         /\ lastBundleSentAt' = wallClock
         /\ tipOrder' = [tipOrder EXCEPT
               !.phase = "sent",
               !.bids = Append(@, optimizedTip(baseTip, tipOrder.attempt)),
               !.estimate = baseTip,
               !.builds = @ + 1]
  /\ UNCHANGED <<wallClock, jitoTipLamports, flow, market, others>>

\* the attempt fails: handleBundleError sleeps, the loop goes round
TipRetry(d) ==
  /\ tipOrder.phase = "sent"
  /\ tipOrder.attempt < maxAttempts
  /\ tipOrder.builds < MaxBuilds
  /\ tipOrder' = [tipOrder EXCEPT !.phase = "build", !.attempt = @ + 1]
  /\ wallClock' = wallClock + Backoff(tipOrder.attempt) + d
  /\ UNCHANGED <<recentTips, lastBundleSentAt, jitoTipLamports, flow, market,
                 others>>

\* executeOrder returns
TipEnd ==
  /\ tipOrder.phase = "sent"
  /\ tipOrder' = [tipOrder EXCEPT !.phase = "none"]
  /\ UNCHANGED <<recentTips, lastBundleSentAt, wallClock, jitoTipLamports, flow,
                 market, others>>

NextFees ==
  \/ \E v \in VolatilityFactors, d \in IdleTimes : TipBegin(v, d)
  \/ BuildTip
  \/ \E d \in IdleTimes : TipRetry(d)
  \/ TipEnd

\* the router may be constructed with any positive jito.tipLamports
InitFees ==
  /\ jitoTipLamports \in {minTipLamports, tipLamports}
  /\ Fresh
  /\ positions = NoPositions
  /\ tradeQueue = NoTradeQueue
  /\ marketHash = NoRecord
  /\ ledger = NoLedger
  /\ parallelism = 1
  /\ orderLimit = MaxOrders
  /\ faults = 0

SpecFees == InitFees /\ [][NextFees]_vars

(* ------------------------- market state manager ------------------------ *)

(***************************************************************************)
(* MarketStateManager (src/src/monitoring/GrafanaIntegration.ts) on one    *)
(* instrument.  Each caller has one call in progress and one command       *)
(* awaited at a time; the managers may use different connections, so the   *)
(* commands of different callers are answered in any order.  A command     *)
(* takes effect when it is answered.  Amounts are whole numbers.           *)
(***************************************************************************)

\* parseFloat(state.field || '0') for a field holding a number or nothing
ParseFloatOrZero(v) == IF v = NULL THEN 0 ELSE v[1]

\* an increment that stores the amount in place of the sum
HIncrByFloat_overwriting(hash, field, amount) ==
  [hash EXCEPT ![field] = <<amount>>]

\* redis.hincrbyfloat(key, field, amount): a missing field counts as 0
HIncrByFloat(hash, field, amount) ==
  [hash EXCEPT ![field] = <<ParseFloatOrZero(hash[field]) + amount>>]

\* a write that replaces the whole record by the one field
HSet_wholesale(hash, field, value) ==
  [f \in HashFields |-> IF f = field THEN <<value>> ELSE NULL]

\* redis.hset(key, field, value)
HSet(hash, field, value) == [hash EXCEPT ![field] = <<value>>]

\* getMarketState's return value for what hgetall gave
MarketStateOf(hash) ==
  IF \A f \in HashFields : hash[f] = NULL THEN Gave("null")
  ELSE [kind |-> "state",
        positionSize |-> ParseFloatOrZero(hash.positionSize),
        liquidity |-> ParseFloatOrZero(hash.liquidity),
        volatility |-> IF hash.volatility = NULL THEN "0" ELSE hash.volatility[1],
        lastUpdated |-> ParseFloatOrZero(hash.lastUpdated)]

\* the field an update call increments
FieldOf(op) == IF op = "updatePosition" THEN "positionSize" ELSE "liquidity"

\* m makes a call
Call(m, op, amount, p) ==
  /\ managers[m].pc = "idle"
  /\ ledger.calls < MaxCalls
  /\ managers' = [managers EXCEPT ![m] =
       [NoCall EXCEPT !.pc = p, !.op = op, !.amount = amount]]
  /\ UNCHANGED <<marketHash, flow, fees, others>>

\* updatePosition(tokenAddress, amount) is called: hincrbyfloat is sent
Manager_updatePosition(m, amount) ==
  /\ Call(m, "updatePosition", amount, "hincrbyfloat")
  /\ ledger' = [ledger EXCEPT !.calls = @ + 1, !.position = @ + amount]

\* updateLiquidity(tokenAddress, amount) is called: hincrbyfloat is sent
Manager_updateLiquidity(m, amount) ==
  /\ Call(m, "updateLiquidity", amount, "hincrbyfloat")
  /\ ledger' = [ledger EXCEPT !.calls = @ + 1, !.liquidity = @ + amount]

\* refreshVolatility(tokenAddress) is called: calculateVolatility is awaited
Manager_refreshVolatility(m) ==
  /\ Call(m, "refreshVolatility", 0, "calculateVolatility")
  /\ ledger' = [ledger EXCEPT !.calls = @ + 1]

\* getMarketState(tokenAddress) is called: hgetall is sent
Manager_getMarketState(m) ==
  /\ Call(m, "getMarketState", 0, "hgetall")
  /\ ledger' = [ledger EXCEPT !.calls = @ + 1]

\* hincrbyfloat is answered; hset lastUpdated is sent
Manager_hincrbyfloat(m) ==
  /\ managers[m].pc = "hincrbyfloat"
  /\ marketHash' = HIncrByFloat(marketHash, FieldOf(managers[m].op),
                                managers[m].amount)
  /\ managers' = [managers EXCEPT ![m].pc = "hset"]
  /\ ledger' = [ledger EXCEPT !.written = TRUE]
  /\ UNCHANGED <<flow, fees, others>>

\* calculateVolatility resolves with a value and hset volatility is sent,
\* or it rejects (an address that is no public key) and the call throws
Manager_calculateVolatility(m) ==
  /\ managers[m].pc = "calculateVolatility"
  /\ \/ \E v \in Volatilities :
          managers' = [managers EXCEPT ![m].pc = "hsetVolatility",
                                       ![m].volatility = v]
     \/ managers' = [managers EXCEPT ![m].pc = "idle", ![m].result = Gave("threw")]
  /\ UNCHANGED <<marketHash, ledger, flow, fees, others>>

\* hset volatility is answered; hset lastUpdated is sent
Manager_hsetVolatility(m) ==
  /\ managers[m].pc = "hsetVolatility"
  /\ marketHash' = HSet(marketHash, "volatility", managers[m].volatility)
  /\ managers' = [managers EXCEPT ![m].pc = "hset"]
  /\ ledger' = [ledger EXCEPT !.written = TRUE]
  /\ UNCHANGED <<flow, fees, others>>

\* hset lastUpdated is answered; the call returns
Manager_hset(m) ==
  /\ managers[m].pc = "hset"
  /\ marketHash' = HSet(marketHash, "lastUpdated", wallClock)
  /\ managers' = [managers EXCEPT ![m].pc = "idle", ![m].result = Gave("void")]
  /\ UNCHANGED <<ledger, flow, fees, others>>

\* hgetall is answered; getMarketState returns
Manager_hgetall(m) ==
  /\ managers[m].pc = "hgetall"
  /\ managers' = [managers EXCEPT ![m].pc = "idle",
                                  ![m].result = MarketStateOf(marketHash),
                                  ![m].seen = ledger,
                                  ![m].alone =
                                    \A o \in ManagerCallers \ {m} :
                                      managers[o].pc = "idle"]
  /\ UNCHANGED <<marketHash, ledger, flow, fees, others>>

NextMarketState ==
  \/ \E m \in ManagerCallers, amount \in Deltas : Manager_updatePosition(m, amount)
  \/ \E m \in ManagerCallers, amount \in Deltas : Manager_updateLiquidity(m, amount)
  \/ \E m \in ManagerCallers : Manager_refreshVolatility(m)
  \/ \E m \in ManagerCallers : Manager_getMarketState(m)
  \/ \E m \in ManagerCallers : Manager_hincrbyfloat(m)
  \/ \E m \in ManagerCallers : Manager_calculateVolatility(m)
  \/ \E m \in ManagerCallers : Manager_hsetVolatility(m)
  \/ \E m \in ManagerCallers : Manager_hset(m)
  \/ \E m \in ManagerCallers : Manager_hgetall(m)

\* the record may exist before the managers are constructed
InitMarketState ==
  /\ jitoTipLamports = tipLamports
  /\ Fresh
  /\ positions = NoPositions
  /\ tradeQueue = NoTradeQueue
  /\ parallelism = 1
  /\ orderLimit = MaxOrders
  /\ faults = 0
  /\ marketHash \in {NoRecord, PriorRecord}
  /\ ledger = [NoLedger EXCEPT !.initial = marketHash,
                               !.written = marketHash # NoRecord]

SpecMarketState == InitMarketState /\ [][NextMarketState]_vars

(* --------------------------- order deduplicator ------------------------ *)

(***************************************************************************)
(* OrderDeduplicator (src/unnamed/part_014) keeps a scalable Bloom filter  *)
(* under one Redis key.  A filter is a sequence of layers; an id is in the *)
(* filter when one layer has all its bits.  The capacity and the           *)
(* time-to-live are scaled down.  A tick of the store's clock may fall     *)
(* between the two commands of markProcessed.                              *)
(***************************************************************************)

\* BF.EXISTS: some layer has every bit of the id
BfExists(key, id) ==
  \E i \in 1..Len(key.layers) : BloomBits(id) \subseteq key.layers[i].bits

\* items the filter counts
BfSize(key) ==
  LET RECURSIVE Sum(_)
      Sum(i) == IF i = 0 THEN 0 ELSE key.layers[i].size + Sum(i - 1)
  IN  Sum(Len(key.layers))

\* BF.RESERVE on a missing key
BfReserve(capacity) ==
  [layers |-> <<[bits |-> {}, size |-> 0, capacity |-> capacity]>>,
   ttl |-> -1, exists |-> TRUE]

\* an add that starts the filter afresh when its last layer is full
BfAdd_resetting(key, id) ==
  LET k == IF key.exists THEN key ELSE BfReserve(defaultBloomCapacity)
      n == Len(k.layers)
      last == k.layers[n]
  IN  IF BfExists(k, id) THEN k
      ELSE IF last.size >= last.capacity
        THEN [k EXCEPT !.layers =
                <<[bits |-> BloomBits(id), size |-> 1,
                   capacity |-> last.capacity * expansionRate]>>]
        ELSE [k EXCEPT !.layers[n].bits = @ \cup BloomBits(id),
                       !.layers[n].size = @ + 1]

\* BF.ADD: a missing key is created with the default capacity; an id the
\* filter already reports is not added; a full last layer is followed by a
\* new one, expansionRate times as large
BfAdd(key, id) ==
  LET k == IF key.exists THEN key ELSE BfReserve(defaultBloomCapacity)
      n == Len(k.layers)
      last == k.layers[n]
  IN  IF BfExists(k, id) THEN k
      ELSE IF last.size >= last.capacity
        THEN [k EXCEPT !.layers =
                Append(@, [bits |-> BloomBits(id), size |-> 1,
                           capacity |-> last.capacity * expansionRate])]
        ELSE [k EXCEPT !.layers[n].bits = @ \cup BloomBits(id),
                       !.layers[n].size = @ + 1]

DedupCall(op, id, p) ==
  /\ dedup.pc = "idle"
  /\ dedup.calls < MaxDedupCalls
  /\ dedup' = [dedup EXCEPT !.pc = p, !.op = op, !.id = id, !.result = "none",
                            !.calls = @ + 1]
  /\ UNCHANGED <<flow, fees, market, configManager, orchestrator, engine>>

\* init() is called: redis.connect() and bloom.reserve are awaited
Dedup_init == DedupCall("init", "a", "reserve")

\* checkDuplicate(orderId) is called: bloom.exists is sent
Dedup_checkDuplicate(id) == DedupCall("checkDuplicate", id, "exists")

\* markProcessed(orderId) is called: bloom.add is sent
Dedup_markProcessed(id) == DedupCall("markProcessed", id, "add")

\* bloom.reserve is answered: the filter is created, or the key exists
\* already and the command fails
Dedup_reserve ==
  /\ dedup.pc = "reserve"
  /\ dedup' = IF dedup.key.exists
                THEN [dedup EXCEPT !.pc = "idle", !.result = "threw"]
                ELSE [dedup EXCEPT !.pc = "idle", !.result = "void",
                                   !.key = BfReserve(bloomCapacity),
                                   !.held = {}]
  /\ UNCHANGED <<flow, fees, market, configManager, orchestrator, engine>>

\* bloom.exists is answered; checkDuplicate returns
Dedup_exists ==
  /\ dedup.pc = "exists"
  /\ dedup' = [dedup EXCEPT
       !.pc = "idle",
       !.result = IF BfExists(dedup.key, dedup.id) THEN "true" ELSE "false",
       !.heldAtCheck = dedup.held,
       !.emptyAtCheck = dedup.key.exists /\ BfSize(dedup.key) = 0]
  /\ UNCHANGED <<flow, fees, market, configManager, orchestrator, engine>>

\* bloom.add is answered; redis.expire is sent
Dedup_add ==
  /\ dedup.pc = "add"
  /\ dedup' = [dedup EXCEPT
       !.pc = "expire",
       !.key = BfAdd(dedup.key, dedup.id),
       !.held = (IF dedup.key.exists THEN @ ELSE {}) \cup {dedup.id}]
  /\ UNCHANGED <<flow, fees, market, configManager, orchestrator, engine>>

\* redis.expire(key, 86400) is answered: an existing key lives for the
\* time-to-live from now; markProcessed returns
Dedup_expire ==
  /\ dedup.pc = "expire"
  /\ dedup' = [dedup EXCEPT
       !.pc = "idle",
       !.result = "void",
       !.key.ttl = IF dedup.key.exists THEN bloomTtl ELSE @,
       !.markedAt[dedup.id] = dedup.now]
  /\ UNCHANGED <<flow, fees, market, configManager, orchestrator, engine>>

\* the store's clock advances; a key whose time-to-live runs out is deleted
DedupTick ==
  /\ dedup.now < MaxDedupTicks
  /\ dedup' = IF dedup.key.ttl = 1
                THEN [dedup EXCEPT !.now = @ + 1, !.key = NoBloom, !.held = {},
                                   !.markedAt = NoDedup.markedAt]
                ELSE [dedup EXCEPT !.now = @ + 1,
                                   !.key.ttl = IF @ > 0 THEN @ - 1 ELSE @]
  /\ UNCHANGED <<flow, fees, market, configManager, orchestrator, engine>>

NextDedup ==
  \/ Dedup_init
  \/ \E id \in OrderIds : Dedup_checkDuplicate(id)
  \/ \E id \in OrderIds : Dedup_markProcessed(id)
  \/ Dedup_reserve
  \/ Dedup_exists
  \/ Dedup_add
  \/ Dedup_expire
  \/ DedupTick

SpecDedup == Init /\ [][NextDedup]_vars

(* --------------------------- BotConfigManager -------------------------- *)

(***************************************************************************)
(* BotConfigManager (src/src/config/BotConfig.ts) is a singleton that      *)
(* loads the configuration from process.env.  maxSlippage and              *)
(* spreadPercentage are counted in thousandths, rebalanceThreshold and     *)
(* maxPositionSize in tenths.                                              *)
(***************************************************************************)

\* what the surroundings may put in a variable of process.env
EnvValues(name) ==
  CASE name = "MAX_SLIPPAGE" -> {NULL, <<5>>, <<10>>, <<20>>}
    [] name = "SPREAD_PERCENTAGE" -> {NULL, <<-1>>, <<5>>, <<20>>, <<200>>}
    [] name = "REBALANCE_THRESHOLD" -> {NULL, <<0>>, <<1000>>}
    [] OTHER -> {NULL, <<5>>, <<1000>>}

\* parseFloat(process.env.X || '<default>')
EnvOr(v, default) == IF v = NULL THEN default ELSE v[1]

\* rawConfig.trading
RawConfig(env) ==
  [maxSlippage |-> EnvOr(env["MAX_SLIPPAGE"], defaultMaxSlippage),
   spreadPercentage |-> EnvOr(env["SPREAD_PERCENTAGE"], defaultSpreadPercentage),
   rebalanceThreshold |->
     EnvOr(env["REBALANCE_THRESHOLD"], defaultRebalanceThreshold),
   maxPositionSize |-> EnvOr(env["MAX_POSITION_SIZE"], defaultMaxPositionSize)]

\* BotConfigSchema.parse: min(0).max(0.1) for the two ratios, positive() for
\* the two sizes
SchemaAccepts(raw) ==
  /\ raw.maxSlippage \in 0..maxRatio
  /\ raw.spreadPercentage \in 0..maxRatio
  /\ raw.rebalanceThreshold > 0
  /\ raw.maxPositionSize > 0

\* business rules that let the spread equal the slippage
validateBusinessRules_allowingEqual(conf) ==
  IF conf.spreadPercentage < conf.maxSlippage
    THEN "SpreadNotAboveSlippage"
  ELSE IF conf.rebalanceThreshold >= conf.maxPositionSize
    THEN "ThresholdNotBelowPosition"
  ELSE "ok"

\* validateBusinessRules: "ok" or the error it throws
validateBusinessRules(conf) ==
  IF conf.spreadPercentage <= conf.maxSlippage
    THEN "SpreadNotAboveSlippage"
  ELSE IF conf.rebalanceThreshold >= conf.maxPositionSize
    THEN "ThresholdNotBelowPosition"
  ELSE "ok"

\* loadAndValidateConfig: the validated config, or the error thrown
loadAndValidateConfig(env) ==
  LET rawConfig == RawConfig(env)
  IN  [config |-> rawConfig,
       error |-> IF ~SchemaAccepts(rawConfig) THEN "InvalidConfiguration"
                 ELSE validateBusinessRules(rawConfig)]

\* the surroundings set or unset a variable of process.env
SetEnv(name, v) ==
  /\ configManager.env[name] # v
  /\ configManager' = [configManager EXCEPT !.env[name] = v]
  /\ UNCHANGED <<flow, fees, market, dedup, orchestrator, engine>>

\* BotConfigManager.getInstance(): the constructor runs when there is no
\* instance; when it throws, the static field is not assigned
BotConfigManager_getInstance ==
  /\ configManager.calls < MaxConfigCalls
  /\ LET loaded == loadAndValidateConfig(configManager.env)
     IN  configManager' =
           IF configManager.instance # NULL
             THEN [configManager EXCEPT !.op = "getInstance", !.loaded = FALSE,
                                        !.outcome = "ok", !.calls = @ + 1]
             ELSE [configManager EXCEPT
                     !.op = "getInstance", !.loaded = TRUE,
                     !.outcome = loaded.error, !.calls = @ + 1,
                     !.instance = IF loaded.error = "ok"
                                    THEN <<loaded.config>> ELSE NULL]
  /\ UNCHANGED <<flow, fees, market, dedup, orchestrator, engine>>

\* reloadConfig(): this.config = this.loadAndValidateConfig(); a throw
\* leaves this.config as it was
BotConfigManager_reloadConfig ==
  /\ configManager.calls < MaxConfigCalls
  /\ configManager.instance # NULL
  /\ LET loaded == loadAndValidateConfig(configManager.env)
     IN  configManager' =
           [configManager EXCEPT
              !.op = "reloadConfig", !.loaded = TRUE,
              !.outcome = loaded.error, !.calls = @ + 1,
              !.instance = IF loaded.error = "ok"
                             THEN <<loaded.config>> ELSE @]
  /\ UNCHANGED <<flow, fees, market, dedup, orchestrator, engine>>

NextBotConfig ==
  \/ \E name \in ConfigEnvNames : \E v \in EnvValues(name) : SetEnv(name, v)
  \/ BotConfigManager_getInstance
  \/ BotConfigManager_reloadConfig

SpecBotConfig == Init /\ [][NextBotConfig]_vars

(* ------------------------------ Orchestrator --------------------------- *)

(***************************************************************************)
(* The trading loop of the Orchestrator                                    *)
(* (src/src/monitoring/GrafanaIntegration.ts): start() and stop() are      *)
(* called from outside, the interval set by start() fires for as long as   *)
(* it is not cleared, and each firing begins a trade cycle that ends       *)
(* later, beside the cycles of other firings.                              *)
(***************************************************************************)

\* stop(): nothing when not running; else the flag and clearInterval
Stopped(o) ==
  IF ~o.isRunning THEN o
  ELSE [o EXCEPT !.isRunning = FALSE, !.timers = @ \ {o.tradeInterval}]

\* a start() that does not look at isRunning
Orchestrator_start_unguarded ==
  /\ orchestrator.calls < MaxOrchestratorCalls
  /\ orchestrator' =
       [orchestrator EXCEPT
          !.isRunning = TRUE, !.circuitBreaker = FALSE,
          !.tradeInterval = orchestrator.calls + 1,
          !.timers = @ \cup {orchestrator.calls + 1},
          !.calls = @ + 1, !.op = "start"]
  /\ UNCHANGED <<flow, fees, market, dedup, configManager, engine>>

\* start(): nothing when running; else isRunning, circuitBreaker and
\* setInterval, whose id is kept in tradeInterval
Orchestrator_start ==
  /\ orchestrator.calls < MaxOrchestratorCalls
  /\ orchestrator' =
       IF orchestrator.isRunning
         THEN [orchestrator EXCEPT !.calls = @ + 1, !.op = "start"]
         ELSE [orchestrator EXCEPT
                 !.isRunning = TRUE, !.circuitBreaker = FALSE,
                 !.tradeInterval = orchestrator.calls + 1,
                 !.timers = @ \cup {orchestrator.calls + 1},
                 !.calls = @ + 1, !.op = "start"]
  /\ UNCHANGED <<flow, fees, market, dedup, configManager, engine>>

\* stop(), called from outside
Orchestrator_stop ==
  /\ orchestrator.calls < MaxOrchestratorCalls
  /\ orchestrator' = [Stopped(orchestrator) EXCEPT !.calls = @ + 1,
                                                   !.op = "stop"]
  /\ UNCHANGED <<flow, fees, market, dedup, configManager, engine>>

\* the callback of interval t runs: it returns when circuitBreaker is set,
\* else executeTradeCycle begins and runs to its first await
IntervalFires(t) ==
  /\ t \in orchestrator.timers
  /\ orchestrator.cycles < MaxCycles
  /\ orchestrator' =
       IF orchestrator.circuitBreaker THEN orchestrator
       ELSE [orchestrator EXCEPT !.cycles = @ + 1, !.inFlight = @ + 1]
  /\ UNCHANGED <<flow, fees, market, dedup, configManager, engine>>

\* failureCount / (successCount + failureCount) || 0 exceeds 0.2
failureRateHigh(successCount, failureCount) ==
  5 * failureCount > successCount + failureCount

\* a trade cycle ends.  "success" and "failure" are the result of the order,
\* counted in tradeReport before updateMetrics; "threw" is a rejection
\* inside executeTradeCycle, handled by handleError, which calls stop() once
\* failureCount exceeds maxPositionSize; its emit('error') comes first and
\* throws when nobody listens for 'error'
CycleEnds(outcome, listening) ==
  /\ orchestrator.inFlight > 0
  /\ LET counted ==
           [orchestrator EXCEPT
              !.inFlight = @ - 1,
              !.successCount = IF outcome = "success" THEN @ + 1 ELSE @,
              !.failureCount = IF outcome = "failure" THEN @ + 1 ELSE @]
     IN  orchestrator' =
           IF outcome = "threw"
             THEN IF listening /\ counted.failureCount > maxPositionSize
                    THEN Stopped(counted) ELSE counted
           ELSE IF failureRateHigh(counted.successCount, counted.failureCount)
             THEN [counted EXCEPT !.circuitBreaker = TRUE, !.resets = @ + 1]
           ELSE counted
  /\ UNCHANGED <<flow, fees, market, dedup, configManager, engine>>

\* setTimeout(() => this.circuitBreaker = false, bundleTimeout) fires
BreakerReset ==
  /\ orchestrator.resets > 0
  /\ orchestrator' = [orchestrator EXCEPT !.circuitBreaker = FALSE,
                                          !.resets = @ - 1]
  /\ UNCHANGED <<flow, fees, market, dedup, configManager, engine>>

NextOrchestrator ==
  \/ Orchestrator_start
  \/ Orchestrator_stop
  \/ \E t \in 1..MaxOrchestratorCalls : IntervalFires(t)
  \/ \E outcome \in {"success", "failure", "threw"} :
       \E listening \in BOOLEAN : CycleEnds(outcome, listening)
  \/ BreakerReset

SpecOrchestrator == Init /\ [][NextOrchestrator]_vars

(* ------------------------ the bundle's slot range ---------------------- *)

(***************************************************************************)
(* buildJitoBundle (src/src/config/ConfigManager.ts) ends with an object   *)
(* literal whose minSlot and maxSlot each await their own                  *)
(* connection.getSlot(), in that order, while the network goes on.         *)
(***************************************************************************)

\* buildJitoBundle up to the first await of getSlot
BuildBundle ==
  /\ slotRange.pc = "idle"
  /\ slotRange.builds < MaxSlotBuilds
  /\ slotRange' = [slotRange EXCEPT !.pc = "minSlot", !.builds = @ + 1]
  /\ UNCHANGED <<flow, fees, market, components, positions, tradeLists,
                 tradeQueue>>

\* minSlot: await this.config.solanaConnection.getSlot()
GetSlot_min ==
  /\ slotRange.pc = "minSlot"
  /\ \E ok \in BOOLEAN :
       slotRange' = IF ok THEN [slotRange EXCEPT !.pc = "maxSlot",
                                                 !.minSlot = slotRange.slot]
                    ELSE [slotRange EXCEPT !.pc = "idle"]
  /\ UNCHANGED <<flow, fees, market, components, positions, tradeLists,
                 tradeQueue>>

\* maxSlot: (await this.config.solanaConnection.getSlot()) + 10
GetSlot_max ==
  /\ slotRange.pc = "maxSlot"
  /\ \E ok \in BOOLEAN :
       slotRange' = IF ok THEN [slotRange EXCEPT
                                 !.pc = "built",
                                 !.maxSlot = slotRange.slot + SlotWindow]
                    ELSE [slotRange EXCEPT !.pc = "idle"]
  /\ UNCHANGED <<flow, fees, market, components, positions, tradeLists,
                 tradeQueue>>

\* executeOrder goes on with the bundle
BundleTaken ==
  /\ slotRange.pc = "built"
  /\ slotRange' = [slotRange EXCEPT !.pc = "idle"]
  /\ UNCHANGED <<flow, fees, market, components, positions, tradeLists,
                 tradeQueue>>

\* the network produces a slot
SlotAdvances ==
  /\ slotRange.slot < MaxSlot
  /\ slotRange' = [slotRange EXCEPT !.slot = @ + 1]
  /\ UNCHANGED <<flow, fees, market, components, positions, tradeLists,
                 tradeQueue>>

NextSlots ==
  \/ BuildBundle
  \/ GetSlot_min
  \/ GetSlot_max
  \/ BundleTaken
  \/ SlotAdvances

SpecSlots == Init /\ [][NextSlots]_vars

(* ----------------------- TradingEngine: positions ---------------------- *)

(***************************************************************************)
(* updatePosition and updatePositions (src/src/TradingEngine.ts) on one    *)
(* token.  Each reads the position with getPosition (hget, 0 when the      *)
(* field is absent or the read fails), computes the new position and       *)
(* writes it with hset inside a MULTI.  The trade queue runs up to         *)
(* maxConcurrency tasks at a time.                                         *)
(***************************************************************************)

RECURSIVE SumOf(_)
SumOf(seq) == IF seq = <<>> THEN 0 ELSE Head(seq) + SumOf(Tail(seq))

\* updates of one call of updatePosition: a buy of 1, a sell of 2
SingleUpdates == {<<1>>, <<-2>>}

\* updates of one call of updatePositions: what executeMarketMaking builds,
\* a buy and a sell of the same token, or one of the two
BatchUpdates == {<<2, -1>>, <<2>>, <<-1>>}

PositionsBusy == {t \in PositionTasks : positions.tasks[t].pc \in {"hget", "exec"}}

\* a call starts: validateTokenAddress, then the first getPosition is awaited
PositionsCall(t, op, updates) ==
  /\ positions.tasks[t].pc \in {"idle", "done"}
  /\ positions.calls < MaxPositionCalls
  /\ Cardinality(PositionsBusy) < positions.maxConcurrency
  /\ positions' =
       [positions EXCEPT
          !.calls = @ + 1,
          !.repeated = @ \/ Len(updates) > 1,
          !.tasks[t] = [NoTask EXCEPT !.pc = "hget", !.op = op,
                                      !.updates = updates, !.i = 1,
                                      !.before = positions.stored]]
  /\ UNCHANGED <<flow, fees, market, components, slotRange, tradeLists,
                 tradeQueue>>

Engine_updatePosition(t) ==
  \E updates \in SingleUpdates : PositionsCall(t, "updatePosition", updates)

Engine_updatePositions(t) ==
  \E updates \in BatchUpdates : PositionsCall(t, "updatePositions", updates)

\* getPosition settles: currentPosition is the stored value, or 0 when hget
\* rejected; newPosition is computed and its hset is queued in the multi;
\* the loop of updatePositions goes on to the next update, or exec is
\* awaited
Engine_getPosition(t) ==
  /\ positions.tasks[t].pc = "hget"
  /\ \E ok \in IF positions.faults < MaxPositionFaults THEN BOOLEAN ELSE {TRUE} :
       LET task == positions.tasks[t]
           currentPosition == IF ok THEN positions.stored ELSE 0
           newPosition == currentPosition + task.updates[task.i]
           last == task.i = Len(task.updates)
       IN  positions' =
             [positions EXCEPT
                !.faults = IF ok THEN @ ELSE @ + 1,
                !.misread = @ \/ ~ok,
                !.tasks[t] = [task EXCEPT
                                !.staged = Append(@, newPosition),
                                !.misread = @ \/ ~ok,
                                !.i = IF last THEN @ ELSE @ + 1,
                                !.pc = IF last THEN "exec" ELSE "hget"]]
  /\ UNCHANGED <<flow, fees, market, components, slotRange, tradeLists,
                 tradeQueue>>

\* multi.exec() settles: the queued hsets are applied in order, so the last
\* one stays; a rejected exec applies none and the call throws
Engine_exec(t) ==
  /\ positions.tasks[t].pc = "exec"
  /\ \E ok \in IF positions.faults < MaxPositionFaults THEN BOOLEAN ELSE {TRUE} :
       LET task == positions.tasks[t]
       IN  positions' =
             IF ok
               THEN [positions EXCEPT
                       !.stored = task.staged[Len(task.staged)],
                       !.applied = @ + SumOf(task.updates),
                       !.tasks[t] = [task EXCEPT
                                       !.pc = "done", !.outcome = "ok",
                                       !.after = task.staged[Len(task.staged)]]]
               ELSE [positions EXCEPT
                       !.faults = @ + 1,
                       !.tasks[t] = [task EXCEPT !.pc = "done",
                                                 !.outcome = "threw",
                                                 !.after = positions.stored]]
  /\ UNCHANGED <<flow, fees, market, components, slotRange, tradeLists,
                 tradeQueue>>

NextPositions ==
  \/ \E t \in PositionTasks : Engine_updatePosition(t)
  \/ \E t \in PositionTasks : Engine_updatePositions(t)
  \/ \E t \in PositionTasks : Engine_getPosition(t)
  \/ \E t \in PositionTasks : Engine_exec(t)

\* the queue runs one task at a time or two; the token may have a position
InitPositions ==
  /\ jitoTipLamports = tipLamports
  /\ Fresh
  /\ marketHash = NoRecord
  /\ ledger = NoLedger
  /\ parallelism = 1
  /\ orderLimit = MaxOrders
  /\ faults = 0
  /\ tradeQueue = NoTradeQueue
  /\ \E initial \in {0, 3} : \E maxConcurrency \in 1..Cardinality(PositionTasks) :
       positions = [NoPositions EXCEPT !.stored = initial, !.initial = initial,
                                       !.maxConcurrency = maxConcurrency]

SpecPositions == InitPositions /\ [][NextPositions]_vars

(* ---------------------- TradingEngine: trade lists --------------------- *)

\* LPUSH: the entry becomes the head of the list
LPush(list, entry) == <<entry>> \o list

\* a trim that keeps the entries at the tail of the list
LTrim_keepingOldest(list, start, stop) ==
  IF Len(list) <= stop + 1 - start THEN list
  ELSE SubSeq(list, Len(list) - (stop - start), Len(list))

\* LTRIM key start stop with indexes from 0: the entries start..stop stay
LTrim(list, start, stop) ==
  SubSeq(list, start + 1, IF stop + 1 < Len(list) THEN stop + 1 ELSE Len(list))

\* simulateTradesAndUpdatePositions stores one trade: lpush, expire and
\* ltrim 0..TradeCap-1 in one MULTI; a failed exec stores nothing
StoreTrade(k) ==
  /\ tradeLists.stored < MaxTrades
  /\ \E ok \in IF tradeLists.faults < MaxTradeFaults THEN BOOLEAN ELSE {TRUE} :
       LET trade == [t |-> k, n |-> tradeLists.stored + 1]
       IN  tradeLists' =
             IF ok
               THEN [tradeLists EXCEPT
                       !.stored = @ + 1,
                       !.lists[k] = LTrim(LPush(@, trade), 0, TradeCap - 1),
                       !.history[k] = LPush(@, trade)]
               ELSE [tradeLists EXCEPT !.faults = @ + 1]
  /\ UNCHANGED <<flow, fees, market, components, slotRange, positions,
                 tradeQueue>>

\* cleanupOldData: redis.keys("trades:*") settles with the keys that exist;
\* a rejection ends the call
Cleanup_keys ==
  /\ tradeLists.pc = "idle"
  /\ tradeLists.cleanups < MaxCleanups
  /\ \E ok \in IF tradeLists.faults < MaxTradeFaults THEN BOOLEAN ELSE {TRUE} :
       LET keys == {k \in TradeTokens : tradeLists.lists[k] # <<>>}
       IN  tradeLists' =
             IF ok /\ keys # {}
               THEN [tradeLists EXCEPT !.pc = "ltrim", !.keys = keys]
               ELSE [tradeLists EXCEPT
                       !.cleanups = @ + 1,
                       !.faults = IF ok THEN @ ELSE @ + 1]
  /\ UNCHANGED <<flow, fees, market, components, slotRange, positions,
                 tradeQueue>>

\* cleanupOldData: the ltrim of one key settles; a rejection ends the call
Cleanup_ltrim ==
  /\ tradeLists.pc = "ltrim"
  /\ \E k \in tradeLists.keys :
     \E ok \in IF tradeLists.faults < MaxTradeFaults THEN BOOLEAN ELSE {TRUE} :
       LET rest == tradeLists.keys \ {k}
       IN  tradeLists' =
             IF ok
               THEN [tradeLists EXCEPT
                       !.lists[k] = LTrim(@, 0, TradeCap - 1),
                       !.keys = rest,
                       !.pc = IF rest = {} THEN "idle" ELSE "ltrim",
                       !.cleanups = IF rest = {} THEN @ + 1 ELSE @]
               ELSE [tradeLists EXCEPT
                       !.keys = {}, !.pc = "idle", !.cleanups = @ + 1,
                       !.faults = @ + 1]
  /\ UNCHANGED <<flow, fees, market, components, slotRange, positions,
                 tradeQueue>>

\* the TTL set by expire runs out: Redis deletes the key
KeyExpires(k) ==
  /\ tradeLists.lists[k] # <<>>
  /\ tradeLists.expiries < MaxExpiries
  /\ tradeLists' = [tradeLists EXCEPT !.lists[k] = <<>>, !.expiries = @ + 1]
  /\ UNCHANGED <<flow, fees, market, components, slotRange, positions,
                 tradeQueue>>

NextTrades ==
  \/ \E k \in TradeTokens : StoreTrade(k)
  \/ Cleanup_keys
  \/ Cleanup_ltrim
  \/ \E k \in TradeTokens : KeyExpires(k)

SpecTrades == Init /\ [][NextTrades]_vars

(* ---------------------- TradingEngine: trade queue --------------------- *)

\* numTransactions / samplePeriodSecs of the samples the node may return
PerfSamples ==
  {[numTransactions |-> n, samplePeriodSecs |-> 60] : n \in {0, 300, 650, 6000}}

\* Math.min(numTransactions / samplePeriodSecs, maxTPS) as a fraction
recentTPS(sample, maxTPS) ==
  IF sample.numTransactions <= maxTPS * sample.samplePeriodSecs
    THEN <<sample.numTransactions, sample.samplePeriodSecs>>
    ELSE <<maxTPS, 1>>

\* Math.max(recentTPS, 10) as a fraction
optimizedIntervalCap(sample, maxTPS) ==
  LET tps == recentTPS(sample, maxTPS)
  IN  IF tps[1] >= minIntervalCap * tps[2] THEN tps ELSE <<minIntervalCap, 1>>

\* start(): the connections are validated, then optimizeRateLimit awaits
\* getRecentPerformanceSamples(1)
Engine_start ==
  /\ tradeQueue.pc = "idle"
  /\ tradeQueue.starts < MaxStarts
  /\ \E valid \in BOOLEAN :
       tradeQueue' = [tradeQueue EXCEPT
                        !.starts = @ + 1,
                        !.pc = IF valid THEN "samples" ELSE "idle"]
  /\ UNCHANGED <<flow, fees, market, components, slotRange, positions,
                 tradeLists>>

\* getRecentPerformanceSamples settles: with a sample the queue is replaced,
\* with none or with a rejection it is kept; start() then sets isActive
Engine_optimizeRateLimit ==
  /\ tradeQueue.pc = "samples"
  /\ \E ok \in BOOLEAN :
     \E perfSamples \in {<<>>} \cup {<<sample>> : sample \in PerfSamples} :
       tradeQueue' =
         IF ok /\ Len(perfSamples) > 0
           THEN [tradeQueue EXCEPT
                   !.pc = "idle", !.isActive = TRUE, !.optimized = TRUE,
                   !.intervalCap =
                     optimizedIntervalCap(perfSamples[1], tradeQueue.maxTPS)]
           ELSE [tradeQueue EXCEPT !.pc = "idle", !.isActive = TRUE]
  /\ UNCHANGED <<flow, fees, market, components, slotRange, positions,
                 tradeLists>>

\* stop()
Engine_stop ==
  /\ tradeQueue.pc = "idle"
  /\ tradeQueue.isActive
  /\ tradeQueue' = [tradeQueue EXCEPT !.isActive = FALSE]
  /\ UNCHANGED <<flow, fees, market, components, slotRange, positions,
                 tradeLists>>

NextTradeQueue == Engine_start \/ Engine_optimizeRateLimit \/ Engine_stop

\* the constructor: intervalCap is config.maxTPS, which BotConfig parses from
\* MAX_TPS without a range check
InitTradeQueue ==
  /\ jitoTipLamports = tipLamports
  /\ Fresh
  /\ marketHash = NoRecord
  /\ ledger = NoLedger
  /\ parallelism = 1
  /\ orderLimit = MaxOrders
  /\ faults = 0
  /\ positions = NoPositions
  /\ \E maxTPS \in 1..MaxMaxTPS :
       tradeQueue = [NoTradeQueue EXCEPT !.maxTPS = maxTPS,
                                        !.intervalCap = <<maxTPS, 1>>]

SpecTradeQueue == InitTradeQueue /\ [][NextTradeQueue]_vars

(* ------------------------------- claims -------------------------------- *)

\* C1: executeOrder never lets an exception reach its caller: whatever
\* collaborator fails, the call ends by returning an OrderResult.
C1_NoExceptionLeavesExecuteOrder ==
  \A c \in Callers : result[c].kind # "threw"

\* C2: of the calls in flight at the same time with the same correlationId,
\* at most one gets past the duplicate check and builds a transaction.
C2_OneCallPerCorrelationIdProceeds ==
  \A c1, c2 \in Callers :
    (/\ c1 # c2
     /\ obs[c1].corr # NoId
     /\ obs[c1].corr = obs[c2].corr)
    => ~(attempt[c1] > 0 /\ attempt[c2] > 0)

\* C3: when an order has ended in success, the position of its instrument
\* has changed by the signed quantity of the order, once, counting the
\* updates of the router and of the Orchestrator that called it.
C3_PositionChangedOncePerSuccess ==
  \A c \in Callers :
    (pc[c] = "done" /\ result[c].success)
    => obs[c].posDelta = SignedAmount(req[c])

\* C4: once a bundle of the order has been confirmed, executeOrder submits
\* no further bundle for that order.
C4_NoSubmissionAfterConfirmation ==
  \A c \in Callers :
    \A a \in obs[c].confirmed, b \in obs[c].submitted : b <= a

\* C5: every position or liquidity update the router makes for an order is
\* made in an attempt whose bundle monitorBundle had confirmed; an attempt
\* that failed or timed out before confirmation updates nothing.
C5_MarketStateOnlyAfterConfirmation ==
  \A c \in Callers :
    /\ obs[c].updatedIn \subseteq obs[c].confirmed
    /\ pc[c] \in {"posIncr", "posHset", "liqIncr", "liqHset"}
         => attempt[c] \in obs[c].confirmed

\* C5 witness: the first attempt failed without touching the market state,
\* the second was confirmed and then updated it.
C5_Witness ==
  \E c \in Callers :
    /\ 1 \in obs[c].submitted
    /\ 1 \notin obs[c].confirmed
    /\ 2 \in obs[c].updatedIn

\* C6: a call that repeats the correlationId of an order already executed
\* builds no transaction and returns a Duplicate failure.
C6_RepeatedIdIsRejectedAsDuplicate ==
  \A c \in Callers :
    obs[c].repeat
    => /\ attempt[c] = 0
       /\ pc[c] = "done" => result[c] = Returned(FALSE, "Duplicate")

\* C7: once `threshold` orders in a row have failed, no call passes the
\* breaker check while the cooldown has not elapsed, and a call made during
\* the cooldown that ends without a transaction build returns CircuitOpen.
C7_CallOnOpenBreakerIsRejected ==
  \A c \in Callers :
    /\ ~obs[c].passedOpen
    /\ (obs[c].openAtStart /\ attempt[c] = 0 /\ pc[c] = "done")
         => result[c] = Returned(FALSE, "CircuitOpen")

\* C8: after the cooldown one call is admitted as the probe; until its
\* outcome is known no other call passes the breaker check.
C8_OneProbeAtATime ==
  \A c \in Callers : ~obs[c].besideProbe

\* C9: the breaker leaves the tripped state only in a step in which the
\* probing order returns success.
C9_UntrippedOnlyByProbeSuccess ==
  [][(circuitBreakerActive /\ ~circuitBreakerActive')
       => \E c \in Callers :
            /\ hist.probe = c
            /\ result[c].kind = "pending"
            /\ result'[c].success]_vars

\* C10: when an order returns success the stored failure count is zero, and
\* the breaker is tripped only by the last of `threshold` failed orders with
\* no successful order between them.
C10_SuccessResetsFailureCount ==
  [][/\ \A c \in Callers :
          (result[c].kind = "pending" /\ result'[c].success)
          => ParseIntOrZero(store'.errorCount) = 0
     /\ (~circuitBreakerActive /\ circuitBreakerActive')
          => hist.consecutiveFailed + 1 >= circuitBreakerThreshold]_vars

\* the awaits of one loop iteration in the order executeOrder reaches them,
\* counted down to the return
AwaitsLeft ==
  [cbGet |-> 15, prepare |-> 14, bundle |-> 13, send |-> 12, monitor |-> 11,
   posIncr |-> 10, posHset |-> 9, liqIncr |-> 8, liqHset |-> 7, recordOk |-> 6,
   hbeIncr |-> 5, orchPosIncr |-> 5, hbeGet |-> 4, orchPosHset |-> 4,
   hbeSet |-> 3, sleep |-> 2, recordFail |-> 1, done |-> 0, idle |-> 0]

\* an upper bound on the awaits a call still has before it returns
StepsLeft(c, p, a) == (maxRetries + 1 - a) * (AwaitsLeft.cbGet + 1) + AwaitsLeft[p]

C12_ExhaustedAfterLastAttempt ==
  \A c \in Callers :
    (/\ pc[c] = "done"
     /\ result[c].kind = "returned"
     /\ ~result[c].success
     /\ attempt[c] = maxAttempts)
    => result[c].error = "Exhausted"

\* C13: a request the transaction builder refuses as invalid is tried once:
\* no second attempt, no backoff sleep, no submission, and the call returns
\* an InvalidIntent failure.
C13_InvalidIntentIsNotRetried ==
  \A c \in Callers :
    (pc[c] # "idle" /\ ~ValidIntent(req[c]))
    => /\ attempt[c] <= 1
       /\ pc[c] # "sleep"
       /\ obs[c].submitted = {}
       /\ pc[c] = "done" => result[c] = Returned(FALSE, "InvalidIntent")

\* C14: within one order, the tip attached on every attempt after the first
\* is strictly greater than the tip attached on attempt 1, as long as the
\* tip multiplier has not reached its cap.
C14_RetryBidsMoreThanFirstAttempt ==
  \A k \in 2..Len(tipOrder.bids) :
    k < 2 * maxTipMultiplier => tipOrder.bids[k] > tipOrder.bids[1]

\* C15: every estimate of calculateDynamicTip and every tip attached to a
\* bundle lies between the limits the configuration sets for a tip: at least
\* the smallest tip it accepts, at most the tip above which it warns.
C15_TipWithinConfiguredRange ==
  tipOrder.builds > 0 =>
    /\ tipOrder.estimate \in minTipLamports..tipWarningLamports
    /\ \A k \in 1..Len(tipOrder.bids) :
         tipOrder.bids[k] \in minTipLamports..tipWarningLamports

C23_HistoryBoundedFifo ==
  [][/\ Len(recentTips') <= HistoryCap
     /\ tipOrder'.builds # tipOrder.builds
          => recentTips' =
               (IF Len(recentTips) = HistoryCap THEN Tail(recentTips)
                ELSE recentTips) \o <<tipOrder'.estimate>>]_vars

\* C23 witness: the history is full, an estimate has been added to the full
\* history, and the constructor's entry, the oldest, has left.
C23_Witness ==
  /\ Len(recentTips) = HistoryCap
  /\ tipOrder.builds >= HistoryCap
  /\ recentTips[HistoryCap] = tipOrder.estimate
  /\ \A i \in 1..HistoryCap : recentTips[i] # jitoTipLamports

\* C17: when the first k >= 1 submissions of an order failed, submission
\* k+1 was confirmed and the call returned success, the returned result
\* reports attempt = k+1 and the position has moved by the signed order
\* quantity.
C17_SuccessReportsTheAttempt ==
  \A c \in Callers :
    (/\ pc[c] = "done"
     /\ attempt[c] > 1
     /\ obs[c].submitted = 1..attempt[c]
     /\ obs[c].confirmed = {attempt[c]}
     /\ result[c].kind = "returned"
     /\ result[c].success)
    => /\ "attempt" \in DOMAIN result[c]
       /\ result[c].attempt = attempt[c]
       /\ obs[c].posDelta = SignedAmount(req[c])

\* C18: an attempt whose confirmation wait passes bundleTimeout fails with
\* the timeout error and confirms nothing; every bundle that is submitted
\* holds the transaction built in the same attempt and the slot range read
\* in the same attempt.
C18_FreshBundlePerAttempt ==
  \A c \in Callers :
    /\ pc[c] = "bundle" => obs[c].transaction = attempt[c]
    /\ pc[c] \in {"send", "monitor"}
         => obs[c].bundle = [transaction |-> attempt[c], slots |-> attempt[c]]
    /\ obs[c].timedOut \subseteq obs[c].submitted \ obs[c].confirmed
    /\ (attempt[c] \in obs[c].timedOut /\ pc[c] \in {"sleep", "hbeIncr"})
         => err[c] = "TimedOut"

\* C18 witness: the first attempt timed out and the bundle of the second
\* attempt, made in that attempt, is about to be submitted.
C18_Witness ==
  \E c \in Callers :
    /\ 1 \in obs[c].timedOut
    /\ attempt[c] = 2
    /\ pc[c] = "send"
    /\ obs[c].bundle = [transaction |-> 2, slots |-> 2]

\* the amounts of the increments of `field` that are sent and not yet answered
RECURSIVE Unanswered(_, _)
Unanswered(field, ms) ==
  IF ms = {} THEN 0
  ELSE LET m == CHOOSE x \in ms : TRUE
       IN  (IF managers[m].pc = "hincrbyfloat" /\ FieldOf(managers[m].op) = field
              THEN managers[m].amount ELSE 0)
           + Unanswered(field, ms \ {m})

\* C19: whatever the interleaving of updatePosition and updateLiquidity
\* calls, the stored positionSize is its initial value plus the amounts of
\* all position updates made, less those whose increment is still on its
\* way, and the same for liquidity: when no increment is on its way, no
\* update is missing.
C19_NoUpdateLost ==
  /\ ParseFloatOrZero(marketHash.positionSize)
       + Unanswered("positionSize", ManagerCallers)
     = ParseFloatOrZero(ledger.initial.positionSize) + ledger.position
  /\ ParseFloatOrZero(marketHash.liquidity)
       + Unanswered("liquidity", ManagerCallers)
     = ParseFloatOrZero(ledger.initial.liquidity) + ledger.liquidity

\* C19 witness: two updatePosition calls were in progress at once, both
\* increments have been answered, and the stored positionSize holds both.
C19_Witness ==
  /\ \A m \in ManagerCallers :
       managers[m].op = "updatePosition" /\ managers[m].pc = "hset"
  /\ marketHash.positionSize
       = <<ParseFloatOrZero(ledger.initial.positionSize)
            + managers["m1"].amount + managers["m2"].amount>>
  /\ managers["m1"].amount # 0 /\ managers["m2"].amount # 0

\* what getMarketState returned to m agrees with the calls made before it
ReadAgrees(call) ==
  (call.op = "getMarketState" /\ call.pc = "idle" /\ call.seen.initial = NoRecord)
  => /\ call.result.kind \in {"null", "state"}
     /\ call.result.kind = "null" <=> ~call.seen.written
     /\ (call.result.kind = "state" /\ call.alone)
          => /\ call.result.positionSize = call.seen.position
             /\ call.result.liquidity = call.seen.liquidity

\* C20: starting from no record, getMarketState returns the sums of the
\* position and liquidity amounts of the calls made before it, and null
\* exactly when nothing has been written; a step of updatePosition leaves
\* liquidity and volatility as they are, a step of updateLiquidity leaves
\* positionSize and volatility, a step of refreshVolatility leaves
\* positionSize and liquidity, and getMarketState leaves the record.
C20_SumsAndFrames ==
  [][\A m \in ManagerCallers :
       /\ ReadAgrees(managers'[m])
       /\ managers'[m] # managers[m] =>
            /\ managers'[m].op # "updatePosition"
                 => marketHash'.positionSize = marketHash.positionSize
            /\ managers'[m].op # "updateLiquidity"
                 => marketHash'.liquidity = marketHash.liquidity
            /\ managers'[m].op # "refreshVolatility"
                 => marketHash'.volatility = marketHash.volatility
            /\ managers'[m].op = "getMarketState"
                 => marketHash' = marketHash]_vars

\* C20 witness: after position and liquidity updates on an instrument that
\* had no record, getMarketState has returned both sums.
C20_Witness ==
  \E m \in ManagerCallers :
    /\ managers[m].op = "getMarketState"
    /\ managers[m].pc = "idle"
    /\ managers[m].alone
    /\ managers[m].seen.initial = NoRecord
    /\ managers[m].result.kind = "state"
    /\ managers[m].result.positionSize = managers[m].seen.position
    /\ managers[m].result.liquidity = managers[m].seen.liquidity
    /\ managers[m].result.positionSize # 0
    /\ managers[m].result.liquidity # 0

\* C21: checkDuplicate answers false on a filter that was just reserved and
\* holds nothing, and it answers true for every id whose add has taken
\* effect on the filter that exists, whatever other ids were added after it:
\* the filter reports every id it holds.
C21_NoFalseNegatives ==
  /\ \A id \in dedup.held : BfExists(dedup.key, id)
  /\ (dedup.op = "checkDuplicate" /\ dedup.pc = "idle")
       => /\ dedup.id \in dedup.heldAtCheck => dedup.result = "true"
          /\ dedup.emptyAtCheck => dedup.result = "false"

\* C21 witness: an id was added, other ids were added after it (the
\* filter has grown a layer), and checkDuplicate has answered true for it.
C21_Witness ==
  /\ dedup.op = "checkDuplicate"
  /\ dedup.pc = "idle"
  /\ dedup.result = "true"
  /\ dedup.id \in dedup.heldAtCheck
  /\ Len(dedup.key.layers) > 1
  /\ BloomBits(dedup.id) \subseteq dedup.key.layers[1].bits

\* C22: the filter never holds more ids than the capacity it was reserved
\* with, and it holds no id whose markProcessed completed a time-to-live or
\* longer ago.
C22_BoundedAndExpiring ==
  /\ BfSize(dedup.key) <= bloomCapacity
  /\ \A id \in dedup.held :
       dedup.markedAt[id] >= 0 => dedup.now - dedup.markedAt[id] < bloomTtl

\* C30: for the fee history the router holds, any idle time and any
\* volatilityFactor of at least 1, calculateDynamicTip returns a positive
\* integer, and the bundle of an order with such a factor carries a positive
\* tipAmount, the one a success outcome reports in bundleMetrics.
C30_TipIsPositive ==
  /\ \A v \in VolatilityFactors :
       \A idle \in IdleTimes \cup {wallClock - lastBundleSentAt} :
         v.num >= v.den => calculateDynamicTip(recentTips, v, idle) > 0
  /\ (/\ tipOrder.phase = "sent"
      /\ tipOrder.volatilityFactor.num >= tipOrder.volatilityFactor.den)
       => tipOrder.bids[Len(tipOrder.bids)] > 0

\* C26: a caller reaches the backoff sleep of handleBundleError only after
\* the failure of its attempt has been counted in the circuit breaker's
\* error count, whichever attempt it was.
C26_FailureCountedBeforeBackoff ==
  [][\A c \in Callers :
       (pc'[c] = "sleep" /\ pc[c] # "sleep") => pc[c] \in {"hbeGet", "hbeSet"}]_vars

\* C27: while the breaker is tripped the recorded failure count is at least
\* the threshold, and a call that has read the count with the count at the
\* threshold leaves the breaker tripped.
C27_TrippedExactlyAtThreshold ==
  /\ [](circuitBreakerActive
          => ParseIntOrZero(store.errorCount) >= circuitBreakerThreshold)
  /\ [][\A c \in Callers :
         (/\ pc[c] = "hbeGet"
          /\ pc'[c] # "hbeGet"
          /\ ParseIntOrZero(store.errorCount) >= circuitBreakerThreshold)
           => circuitBreakerActive']_vars

\* C28: the configuration a BotConfigManager holds always has
\* spreadPercentage > maxSlippage and rebalanceThreshold < maxPositionSize;
\* a getInstance or reloadConfig that loads an environment violating one of
\* the two rules throws and leaves the instance, or its absence, as it was.
C28_ConfigSatisfiesBusinessRules ==
  /\ [](configManager.instance # NULL =>
         /\ configManager.instance[1].spreadPercentage
              > configManager.instance[1].maxSlippage
         /\ configManager.instance[1].rebalanceThreshold
              < configManager.instance[1].maxPositionSize)
  /\ [][(/\ configManager'.calls # configManager.calls
         /\ configManager'.loaded
         /\ \/ RawConfig(configManager.env).spreadPercentage
                 <= RawConfig(configManager.env).maxSlippage
            \/ RawConfig(configManager.env).rebalanceThreshold
                 >= RawConfig(configManager.env).maxPositionSize)
          => /\ configManager'.outcome # "ok"
             /\ configManager'.instance = configManager.instance]_vars

\* C28 witness: a reloadConfig on an existing instance has thrown for a
\* spread that is not above the slippage, and the instance still holds the
\* configuration loaded before, which differs from the environment.
C28_Witness ==
  /\ configManager.op = "reloadConfig"
  /\ configManager.outcome = "SpreadNotAboveSlippage"
  /\ configManager.instance # NULL
  /\ configManager.instance[1] # RawConfig(configManager.env)

\* C29: an interval is scheduled exactly while isRunning is set, and then
\* exactly one; start() sets isRunning and leaves one interval, and changes
\* nothing when already running; stop() clears isRunning and the interval,
\* and changes nothing when not running; a trade cycle begins only while
\* the orchestrator is running.
C29_OneLoopWhileRunning ==
  /\ [](Cardinality(orchestrator.timers)
          = IF orchestrator.isRunning THEN 1 ELSE 0)
  /\ [][/\ orchestrator'.cycles # orchestrator.cycles => orchestrator.isRunning
        /\ (orchestrator'.calls # orchestrator.calls
              /\ orchestrator'.op = "start")
             => /\ orchestrator'.isRunning
                /\ orchestrator.isRunning
                     => orchestrator'.timers = orchestrator.timers
        /\ (orchestrator'.calls # orchestrator.calls
              /\ orchestrator'.op = "stop")
             => /\ ~orchestrator'.isRunning
                /\ orchestrator'.timers = {}
                /\ ~orchestrator.isRunning
                     => orchestrator' = [orchestrator EXCEPT !.calls = @ + 1,
                                                             !.op = "stop"]]_vars

\* C29 witness: the orchestrator was started, started again while running,
\* and stopped from outside while a trade cycle was in flight; no interval
\* is left.
C29_Witness ==
  /\ orchestrator.op = "stop"
  /\ orchestrator.calls >= 3
  /\ orchestrator.tradeInterval = 1
  /\ ~orchestrator.isRunning
  /\ orchestrator.timers = {}
  /\ orchestrator.inFlight > 0

\* C24: once the caller has cancelled a call that was suspended, the call
\* starts no further attempt, and what it returns is a Cancelled outcome.
C24_CancellationAbortsTheOrder ==
  [][\A c \in Callers :
       obs[c].cancelled =>
         /\ attempt'[c] <= attempt[c]
         /\ (result[c].kind = "pending" /\ result'[c].kind # "pending")
              => /\ result'[c].kind = "returned"
                 /\ result'[c].error = "Cancelled"]_vars

\* C25: while the store holds a trip of the breaker whose cooldown has not
\* elapsed, a call that starts, on whichever router instance, is taken to
\* the breaker's check of the store and does not start an attempt.
C25_TripOutlivesTheRouter ==
  [][\A c \in Callers :
       (/\ pc[c] = "idle"
        /\ pc'[c] # "idle"
        /\ store.lastTriggered # NULL
        /\ now - store.lastTriggered[1] <= circuitBreakerTimeout)
         => pc'[c] = "cbGet" /\ attempt'[c] = 0]_vars

\* C31: every entry that enters the fee history is the tip that was
\* attached to the bundle built with it, the fee paid when that bundle is
\* submitted.
C31_HistoryHoldsPaidFees ==
  [][tipOrder'.builds # tipOrder.builds
       => recentTips'[Len(recentTips')]
            = tipOrder'.bids[Len(tipOrder'.bids)]]_vars

\* C33: the backoff sleep is taken only after a failed attempt that another
\* attempt follows; the last attempt of an order is not followed by a sleep.
C33_SleepOnlyBeforeAnotherAttempt ==
  \A c \in Callers : pc[c] = "sleep" => attempt[c] < maxAttempts

\* C37: a call that has returned success = false has left the position of
\* the instrument as it was.
C37_FailureLeavesMarketState ==
  \A c \in Callers :
    (pc[c] = "done" /\ result[c].kind = "returned" /\ ~result[c].success)
      => obs[c].posDelta = 0

\* C38: a call that has ended has recorded exactly one trade metric, and
\* the success flag of the metric is that of the outcome it returned.
C38_OneMetricPerCall ==
  \A c \in Callers :
    (pc[c] = "done" \/ pc[c] = "orchPosIncr" \/ pc[c] = "orchPosHset")
      => /\ Len(obs[c].recorded) = 1
         /\ result[c].kind = "returned"
              => obs[c].recorded[1] = result[c].success

\* C36: at most one trade cycle of the orchestrator is in flight.
C36_OneTradeCycleInFlight == orchestrator.inFlight <= 1

\* C32: every bundle that buildJitoBundle returns has minSlot <= maxSlot
\* and a slot range of at most 10 slots.
C32_SlotRangeBounded ==
  slotRange.pc = "built"
    => /\ slotRange.minSlot <= slotRange.maxSlot
       /\ slotRange.maxSlot - slotRange.minSlot <= SlotWindow

\* C34: a call of updatePositions that ran alone, read the stored position
\* each time and returned, has moved the stored position by the sum of the
\* updates of its batch.
C34_BatchAppliesEveryUpdate ==
  \A t \in PositionTasks :
    (/\ positions.maxConcurrency = 1
     /\ positions.tasks[t].pc = "done"
     /\ positions.tasks[t].op = "updatePositions"
     /\ positions.tasks[t].outcome = "ok"
     /\ ~positions.tasks[t].misread)
      => positions.tasks[t].after
           = positions.tasks[t].before + SumOf(positions.tasks[t].updates)

\* C35: when no call is in flight, every read of the position has
\* succeeded and every call held one update, the stored position is the
\* initial one plus the updates of the calls that have returned, however
\* the calls overlapped.
C35_NoUpdateLost ==
  (/\ PositionsBusy = {}
   /\ ~positions.misread
   /\ ~positions.repeated)
    => positions.stored = positions.initial + positions.applied

\* C39: every list trades:<token> holds at most TradeCap entries, and they
\* are the most recent trades pushed to it, newest first, after every store
\* and every step of cleanupOldData.
C39_TradeListCapped ==
  \A k \in TradeTokens :
    /\ Len(tradeLists.lists[k]) <= TradeCap
    /\ tradeLists.lists[k]
         = SubSeq(tradeLists.history[k], 1, Len(tradeLists.lists[k]))

C39_Witness ==
  \E k \in TradeTokens :
    /\ Len(tradeLists.history[k]) > TradeCap
    /\ Len(tradeLists.lists[k]) = TradeCap
    /\ tradeLists.cleanups > 0

\* C40: the intervalCap of the trade queue is at most config.maxTPS, at
\* construction and after optimizeRateLimit.
C40_IntervalCapWithinMaxTPS ==
  tradeQueue.intervalCap[1] <= tradeQueue.maxTPS * tradeQueue.intervalCap[2]

====
